---- MODULE Spec2Model ----
(***************************************************************************)
(* The application state machine of marine-terminal: the Bubble Tea model   *)
(* (internal/ui), its Update reducer, the background commands it dispatches *)
(* and the saved-port store they act on.                                    *)
(*                                                                          *)
(* The repository holds three revisions of the reducer.  rev names the one  *)
(* that is running; it is fixed at construction:                            *)
(*   "ports"  src/unnamed/part_004 lines 1-872    (saved ports, tides)      *)
(*   "tides"  src/internal/ui/model.go            (tides, direct load)      *)
(*   "zones"  src/unnamed/part_004 lines 873-1455 (zones only)              *)
(*                                                                          *)
(* The Model struct is the record m.  A command returned by Update is an    *)
(* element of the bag tasks until its completion message has been handed    *)
(* to Update; Bubble Tea runs every command on its own goroutine, so the    *)
(* completion messages of different commands arrive in any order.           *)
(***************************************************************************)
EXTENDS Integers, Sequences, FiniteSets, Bags, TLC

(***************************************************************************)
(* Bounds of the model.                                                     *)
(***************************************************************************)
\* commands in flight beyond which the user's keys dispatch no further one
MaxTasks == 3
\* progress strings one provisioning phase sends at most
MaxStatus == 1
\* key presses of one run
MaxKeys == 5

\* concurrent or repeated calls of a provisioning function
MaxTriggers == 2

\* rows of an index table
TableRows == 2

\* concurrent calls that use the database
MaxCallers == 3

\* rows of an index table a lookup runs on
MaxEntities == 3

(***************************************************************************)
(* The finite universe the inputs are drawn from.                           *)
(***************************************************************************)
Revisions == {"ports", "tides", "zones"}

Queries == {"02633", "Boston, MA"}

ZoneCodes == {"ANZ254", "ANZ237"}

StationIDs == {"8447435"}

TypedNames == {"Dock"}

ErrCauses == {"timeout"}

\* the keys pressed in each state: those its case of the key switch names
\* and, where every name is bound, one it does not name
ZoneListKeys == {"enter", "esc", "s", "down", "up"}

DisplayKeys == {"s", "e"}

ErrorKeys == {"esc", "x"}

IdleKeys == {"esc"}

SavedPortsKeys == {"enter", "n", "esc", "d", "down", "up"}

SavePromptKeys == {"enter", "esc"}

ConfirmDeleteKeys == {"y", "n", "esc", "x"}

QuitKeys == {"q", "ctrl+c"}

(***************************************************************************)
(* Values.  A nil pointer is the record of its type whose fields are "nil". *)
(***************************************************************************)
NoErr == <<>>

NilLocation == [Name |-> "nil", Point |-> "nil"]

NilZone == [Code |-> "nil", Name |-> "nil"]

NilData == [kind |-> "nil", of |-> "nil"]

NilPort ==
  [Name |-> "nil", State |-> "", City |-> "", Zipcode |-> "",
   MarineZoneID |-> "", TideStationID |-> "", Point |-> ""]

NoList == [items |-> <<>>, cursor |-> 0]

\* geocoding.Location for a query the geocoder can resolve
LocationOf(q) ==
  IF q = "02633"
    THEN [Name |-> "Chatham, MA 02633", Point |-> "41.6885,-69.9511"]
    ELSE [Name |-> "Boston, MA 02108", Point |-> "42.3601,-71.0589"]

\* zonelookup.ZoneInfo of a zone of the index
ZoneInfo(code) ==
  [Code |-> code,
   Name |-> IF code = "ANZ254" THEN "Chatham to Nantucket Sound"
                               ELSE "Boston Harbor"]

\* the payloads the NOAA clients return for a zone or a station
Conditions(z) == [kind |-> "conditions", of |-> z]

Forecast(z) == [kind |-> "forecast", of |-> z]

Alerts(z) == [kind |-> "alerts", of |-> z]

Tides(s) == [kind |-> "tides", of |-> s]

MetData(s) == [kind |-> "met", of |-> s]

\* the lists a nearby-zone / nearby-station lookup can return, nearest first
ZoneResults == {<<>>, <<"ANZ254", "ANZ237">>}

StationResults == {<<>>, <<"8447435">>}

(***************************************************************************)
(* Commands.  Every command is a record of its kind and string arguments.   *)
(***************************************************************************)
Task(kind, a, b, c) == [kind |-> kind, a |-> a, b |-> b, c |-> c]

One(t) == SetToBag({t})

NoCmd == EmptyBag

geocodeLocation(query) == Task("geocodeLocation", query, "", "")

findNearbyZones(point) == Task("findNearbyZones", point, "", "")

findNearestTideStation(point) == Task("findNearestTideStation", point, "", "")

fetchZoneWeather(zoneCode) == Task("fetchZoneWeather", zoneCode, "", "")

fetchZoneAlerts(zoneCode) == Task("fetchZoneAlerts", zoneCode, "", "")

fetchTideData(stationID) == Task("fetchTideData", stationID, "", "")

directLoadStation(zoneCode) == Task("directLoadStation", zoneCode, "", "")

fetchSavedPorts == Task("fetchSavedPorts", "", "", "")

fetchPortByName(name) == Task("fetchPortByName", name, "", "")

savePort(name, inputLocation, marineZoneCode) ==
  Task("savePort", name, inputLocation, marineZoneCode)

deletePort(name) == Task("deletePort", name, "", "")

initiateProvisioning == Task("initiateProvisioning", "", "", "")

waitForProvisionStatus == Task("waitForProvisionStatus", "", "", "")

waitForProvisionResult == Task("waitForProvisionResult", "", "", "")

\* a message a provisioning waiter has received and not yet handed to Update
provisionStatusMsg(status) == Task("provisionStatusMsg", status, "", "")

provisionResultMsg(cause) == Task("provisionResultMsg", cause, "", "")

VARIABLES
  rev,      \* the revision of the reducer
  m,        \* the Model struct
  tasks,    \* bag of the commands in flight
  store,    \* the user_ports table: set of rows, at most one per name
  prov,     \* the provisioning goroutine and its two channels
  running,  \* FALSE once Update has returned tea.Quit
  last,     \* the message Update handled last, and its outcome
  pressed,  \* the number of messages from outside Update has handled
  db,       \* the index tables of the database file, and provisionMu
  procs,    \* the calls of the provisioning functions
  conn,     \* the singleton connections, and the calls that use the database
  geo,      \* a lookup in the index tables: its inputs and what it returned
  cache,    \* the NOAAAlertClient: its clock, its cache map and its callers
  coder     \* the Geocoder: its clock, lastCall, mu and its callers

vars ==
  <<rev, m, tasks, store, prov, running, last, pressed, db, procs, conn, geo,
    cache, coder>>

(***************************************************************************)
(* The saved-port table and the location strings of a port.                 *)
(***************************************************************************)
\* ports.populateLocationFields: the State, City and Zipcode parsed from the
\* location string a port is created from
populateLocationFields(port, input) ==
  IF input = "02633"
    THEN [port EXCEPT !.Zipcode = input]
    ELSE IF input = "Boston, MA"
      THEN [port EXCEPT !.City = "Boston", !.State = "MA"]
      ELSE [port EXCEPT !.City = input]

\* fmt.Sprintf("%s, %s", p.City, p.State)
CityState(city, state) ==
  IF city = "Boston" /\ state = "MA" THEN "Boston, MA"
  ELSE IF city = "" /\ state = "" THEN ", "
  ELSE "other, other"

\* the rows the table can hold before the program starts
DockPort ==
  [Name |-> "Dock", State |-> "", City |-> "", Zipcode |-> "02633",
   MarineZoneID |-> "ANZ254", TideStationID |-> "8447435",
   Point |-> "41.6885,-69.9511"]

WharfPort ==
  [Name |-> "Wharf", State |-> "MA", City |-> "Boston", Zipcode |-> "",
   MarineZoneID |-> "ANZ237", TideStationID |-> "8447435",
   Point |-> "42.3601,-71.0589"]

InitialStores == {{}, {DockPort, WharfPort}}

\* the names a port can carry, in the order of ORDER BY name
NameOrder == <<"Boston, MA 02108", "Chatham, MA 02633", "Dock", "Wharf">>

RECURSIVE RowsInOrder(_, _)
RowsInOrder(rows, i) ==
  IF i > Len(NameOrder) THEN <<>>
  ELSE LET here == {r \in rows : r.Name = NameOrder[i]}
       IN  (IF here = {} THEN <<>> ELSE <<CHOOSE r \in here : TRUE>>)
           \o RowsInOrder(rows, i + 1)

\* Repository.ListPorts: SELECT ... FROM user_ports ORDER BY name
ListPorts(rows) == RowsInOrder(rows, 1)

SavePortAppends(rows, port) == rows \cup {port}

\* Repository.SavePort: INSERT ... ON CONFLICT(name) DO UPDATE SET ...
SavePort(rows, port) == {r \in rows : r.Name # port.Name} \cup {port}

\* Repository.DeletePort: DELETE FROM user_ports WHERE name = ?
DeletePort(rows, name) == {r \in rows : r.Name # name}

(***************************************************************************)
(* The database file: the three index tables, each absent or holding a set  *)
(* of rows, the calls of the provisioning functions, and the connections.   *)
(***************************************************************************)
Phases == {"zones", "zip", "stations"}

AllRows == 1..TableRows

\* a table: not in sqlite_master, or there with the rows committed to it
Absent == [exists |-> FALSE, rows |-> {}]

Table(rows) == [exists |-> TRUE, rows |-> rows]

\* a call that has not been made yet
IdleProc ==
  [phase |-> "", pc |-> "idle", err |-> "", next |-> 1, tx |-> {},
   built |-> FALSE]

\* the database, the calls and the connections while the reducer is looked at
NoDB == [tables |-> [ph \in Phases |-> Table(AllRows)], mu |-> 0]

NoProcs == [p \in 1..MaxTriggers |-> IdleProc]

\* the last instant of the clock
MaxNow == 5

\* const cacheDuration = 15 * time.Minute
cacheDuration == 3

\* the goroutines that call one client
Clients == 1..2

NoEntry == [ok |-> FALSE, data |-> NilData, fetchedAt |-> 0]

\* type cacheEntry
cacheEntry(data, fetchedAt) ==
  [ok |-> TRUE, data |-> data, fetchedAt |-> fetchedAt]

IdleClient ==
  [pc |-> "idle", zone |-> "", data |-> NilData, err |-> "",
   hit |-> FALSE, age |-> 0]

\* NewAlertClient: an empty map; no call in progress
NoCache ==
  [now |-> 0,
   entries |-> [z \in ZoneCodes |-> NoEntry],
   calls |-> [c \in Clients |-> IdleClient]]

\* the last instant of the geocoder's clock, in half seconds
MaxTime == 6

\* time.Second, in half seconds
Second == 2

\* the goroutines that call one Geocoder
Geocoders == 1..2

\* the zero time.Time of a Geocoder that has made no call
ZeroTime == 0 - 1

IdleGeocoder == [pc |-> "idle", wake |-> 0]

\* NewGeocoder: lastCall is the zero time, mu is unlocked (0), no request
\* has been admitted
NoCoder ==
  [now |-> 0, lastCall |-> ZeroTime, mu |-> 0,
   calls |-> [c \in Geocoders |-> IdleGeocoder],
   admitted |-> <<>>]

\* no lookup is being looked at
NoGeo == [pc |-> "none"]

Packages == {"zonelookup", "stations", "geocoding"}

IdleCaller == [op |-> "", pc |-> "idle", used |-> 0, err |-> ""]

NoConn ==
  [once |-> [pkg \in Packages |-> "new"],
   handle |-> [pkg \in Packages |-> 0],
   initErr |-> [pkg \in Packages |-> ""],
   opens |-> 0,
   callers |-> [c \in 1..MaxCallers |-> IdleCaller]]

(***************************************************************************)
(* The Model struct after NewModel.                                         *)
(***************************************************************************)
NewModel(r, initialStationCode, initialLocation, initialPortName) ==
  [state |-> IF r = "ports" THEN "Loading" ELSE "Search",
   err |-> NoErr,
   searchInput |-> "",
   searchQuery |-> "",
   location |-> NilLocation,
   zones |-> <<>>,
   zoneList |-> NoList,
   selectedZone |-> NilZone,
   tideStations |-> <<>>,
   tideStation |-> "nil",
   savedPorts |-> <<>>,
   portList |-> NoList,
   saveInput |-> "",
   saving |-> FALSE,
   portToDelete |-> NilPort,
   weather |-> NilData,
   forecast |-> NilData,
   alerts |-> NilData,
   tides |-> NilData,
   tideConditions |-> NilData,
   loadingWeather |-> FALSE,
   loadingAlerts |-> FALSE,
   loadingTides |-> FALSE,
   provisionStatus |-> "",
   provisionChannels |-> FALSE,
   initialStationCode |-> initialStationCode,
   initialLocation |-> initialLocation,
   initialPortName |-> initialPortName]

\* the command line: --station (with --location), --port, or nothing
CommandLines(r) ==
  {[station |-> "", location |-> "", port |-> ""]}
  \cup (IF r = "ports"
          THEN {[station |-> "ANZ254", location |-> "02633", port |-> ""],
                [station |-> "", location |-> "", port |-> "Dock"]}
          ELSE {})
  \cup (IF r = "tides"
          THEN {[station |-> "ANZ254", location |-> "", port |-> ""]}
          ELSE {})

\* Model.Init: the first command.  Init has a value receiver, so what it
\* assigns to m is lost; only the command it returns has an effect.
InitCmd(r, cl, needsProvisioning) ==
  IF needsProvisioning THEN One(initiateProvisioning)
  ELSE IF r = "ports" /\ cl.port # ""
    THEN One(fetchPortByName(cl.port))
  ELSE IF r = "ports" /\ cl.station # "" /\ cl.location # ""
    THEN One(geocodeLocation(cl.location))
  ELSE IF r = "ports" THEN One(fetchSavedPorts)
  ELSE IF r = "tides" /\ cl.station # ""
    THEN One(directLoadStation(cl.station))
  ELSE NoCmd

NoProv == [pc |-> "idle", sent |-> 0, cause |-> ""]

Init ==
  /\ rev \in Revisions
  /\ \E cl \in CommandLines(rev), needsProvisioning \in BOOLEAN :
       /\ m = NewModel(rev, cl.station, cl.location, cl.port)
       /\ tasks = InitCmd(rev, cl, needsProvisioning)
       /\ store \in (IF rev = "ports" /\ ~needsProvisioning
                       THEN InitialStores ELSE {{}})
  /\ prov = NoProv
  /\ running = TRUE
  /\ last = [kind |-> "init", arg |-> ""]
  /\ pressed = 0
  /\ db = NoDB
  /\ procs = NoProcs
  /\ conn = NoConn
  /\ geo = NoGeo
  /\ cache = NoCache
  /\ coder = NoCoder

(***************************************************************************)
(* Update: the handlers of the completion messages.  Each returns the new   *)
(* Model and the commands Update returns with it.                           *)
(***************************************************************************)
Ret(mm, cmds) == [m |-> mm, cmds |-> cmds]

\* fmt.Errorf(prefix + ": %w", cause)
Errorf(prefix, cause) == <<prefix, cause>>

\* createZoneList / createPortList: a fresh list, cursor on the first item
createList(items) == [items |-> items, cursor |-> IF items = <<>> THEN 0 ELSE 1]

\* list.Model.SelectedItem
HasSelectedItem(l) == l.cursor >= 1 /\ l.cursor =< Len(l.items)

SelectedItem(l) == l.items[l.cursor]

\* list.Model.Update for the cursor keys
listUpdate(l, key) ==
  IF key = "down" /\ l.cursor < Len(l.items) THEN [l EXCEPT !.cursor = @ + 1]
  ELSE IF key = "up" /\ l.cursor > 1 THEN [l EXCEPT !.cursor = @ - 1]
  ELSE l

\* Model.loadPort (revision "ports")
loadPort(mm, p) ==
  LET q == IF p.Zipcode # "" THEN p.Zipcode ELSE CityState(p.City, p.State)
      m1 == [mm EXCEPT !.searchQuery = q,
                       !.selectedZone = [Code |-> p.MarineZoneID, Name |-> p.Name],
                       !.location = [Name |-> q, Point |-> p.Point],
                       !.state = "Loading",
                       !.loadingWeather = TRUE,
                       !.loadingAlerts = TRUE]
  IN  Ret(m1, One(fetchZoneWeather(p.MarineZoneID))
              (+) One(fetchZoneAlerts(p.MarineZoneID))
              (+) One(findNearestTideStation(p.Point)))

\* OnErr with the state left as it is
OnErrKeepsState(mm, e) == Ret([mm EXCEPT !.err = e], NoCmd)

\* case errMsg
OnErr(mm, e) == Ret([mm EXCEPT !.err = e, !.state = "Error"], NoCmd)

\* case portsFetchedMsg
OnPortsFetched(mm, ports, failed) ==
  IF failed THEN Ret([mm EXCEPT !.state = "Search"], NoCmd)
  ELSE LET m1 == [mm EXCEPT !.savedPorts = ports]
       IN  IF Len(ports) > 0
             THEN loadPort([m1 EXCEPT !.portList = createList(ports)], ports[1])
             ELSE Ret([m1 EXCEPT !.state = "Search"], NoCmd)

\* case portFetchedMsg
OnPortFetched(mm, port, e) ==
  IF e # NoErr THEN Ret([mm EXCEPT !.err = e, !.state = "Error"], NoCmd)
  ELSE loadPort(mm, port)

\* the savedPorts slice with the row of port's name replaced, or port appended
UpdateLocalList(ports, port) ==
  IF \E i \in 1..Len(ports) : ports[i].Name = port.Name
    THEN LET i == CHOOSE j \in 1..Len(ports) :
                    /\ ports[j].Name = port.Name
                    /\ \A k \in 1..(j - 1) : ports[k].Name # port.Name
         IN  [ports EXCEPT ![i] = port]
    ELSE Append(ports, port)

\* case portSavedMsg
OnPortSaved(mm, port, e) ==
  LET m1 == [mm EXCEPT !.saving = FALSE]
  IN  IF e # NoErr THEN Ret([m1 EXCEPT !.err = e, !.state = "Error"], NoCmd)
      ELSE LET ports == UpdateLocalList(m1.savedPorts, port)
           IN  loadPort([m1 EXCEPT !.savedPorts = ports,
                                   !.portList = createList(ports)], port)

\* case portDeletedMsg
OnPortDeleted(mm, name, e) ==
  IF e # NoErr THEN Ret([mm EXCEPT !.err = e, !.state = "Error"], NoCmd)
  ELSE LET ports == SelectSeq(mm.savedPorts, LAMBDA p : p.Name # name)
       IN  Ret([mm EXCEPT !.savedPorts = ports,
                          !.portList = createList(ports),
                          !.state = "SavedPorts"], NoCmd)

\* case provisioningStartedMsg
OnProvisioningStartedArmsResultOnly(mm) ==
  Ret([mm EXCEPT !.state = "Provisioning",
                 !.provisionStatus = "Starting data provisioning...",
                 !.provisionChannels = TRUE],
      One(waitForProvisionResult))

OnProvisioningStarted(mm) ==
  Ret([mm EXCEPT !.state = "Provisioning",
                 !.provisionStatus = "Starting data provisioning...",
                 !.provisionChannels = TRUE],
      One(waitForProvisionStatus) (+) One(waitForProvisionResult))

\* OnProvisionStatus with two waiters per status message
OnProvisionStatusArmsTwo(mm, status) ==
  Ret([mm EXCEPT !.provisionStatus = status],
      IF mm.provisionChannels
        THEN One(waitForProvisionStatus) (+) One(waitForProvisionStatus)
        ELSE NoCmd)

\* case provisionStatusMsg
OnProvisionStatus(mm, status) ==
  Ret([mm EXCEPT !.provisionStatus = status],
      IF mm.provisionChannels THEN One(waitForProvisionStatus) ELSE NoCmd)

\* case provisionResultMsg
OnProvisionResult(r, mm, cause) ==
  LET m1 == [mm EXCEPT !.provisionChannels = FALSE]
  IN  IF cause # ""
        THEN Ret([m1 EXCEPT !.err = Errorf("provisioning failed", cause),
                            !.state = "Error"], NoCmd)
      ELSE IF r = "ports" THEN Ret(m1, One(fetchSavedPorts))
      ELSE Ret([m1 EXCEPT !.state = "Search"], NoCmd)

\* case geocodeMsg
OnGeocodeDropsLookup(r, mm, loc, cause) ==
  IF cause # ""
    THEN Ret([mm EXCEPT !.err = Errorf("geocoding failed", cause),
                        !.state = "Error"], NoCmd)
  ELSE Ret([mm EXCEPT !.location = loc], NoCmd)

OnGeocode(r, mm, loc, cause) ==
  IF cause # ""
    THEN Ret([mm EXCEPT !.err = Errorf("geocoding failed", cause),
                        !.state = "Error"], NoCmd)
  ELSE LET m1 == [mm EXCEPT !.location = loc]
       IN  IF r = "ports" /\ mm.initialStationCode # ""
             THEN Ret([m1 EXCEPT !.selectedZone =
                                    [Code |-> mm.initialStationCode,
                                     Name |-> "Direct Loaded"],
                                 !.state = "Loading",
                                 !.loadingWeather = TRUE,
                                 !.loadingAlerts = TRUE],
                      One(fetchZoneWeather(mm.initialStationCode))
                      (+) One(fetchZoneAlerts(mm.initialStationCode))
                      (+) One(findNearestTideStation(loc.Point)))
           ELSE IF r = "zones" THEN Ret(m1, One(findNearbyZones(loc.Point)))
           ELSE Ret(m1, One(findNearbyZones(loc.Point))
                        (+) One(findNearestTideStation(loc.Point)))

\* case tideStationFoundMsg
OnTideStationFound(mm, stations, cause) ==
  IF cause = "" /\ Len(stations) > 0
    THEN Ret([mm EXCEPT !.tideStations = stations,
                        !.tideStation = stations[1],
                        !.loadingTides = TRUE],
             One(fetchTideData(stations[1])))
  ELSE IF cause # ""
    THEN Ret([mm EXCEPT !.tideStation = "nil", !.tideStations = <<>>], NoCmd)
  ELSE Ret(mm, NoCmd)

\* OnTideDataFetched with a failure that is raised to the Error state
OnTideDataFetchedRaises(mm, tides, conditions, cause) ==
  LET m1 == [mm EXCEPT !.loadingTides = FALSE]
  IN  IF cause # ""
        THEN Ret([m1 EXCEPT !.err = Errorf("fetching tides failed", cause),
                            !.state = "Error"], NoCmd)
      ELSE Ret([m1 EXCEPT !.tides = tides, !.tideConditions = conditions], NoCmd)

\* case tideDataFetchedMsg
OnTideDataFetched(mm, tides, conditions, cause) ==
  LET m1 == [mm EXCEPT !.loadingTides = FALSE]
  IN  IF cause # "" THEN Ret(m1, NoCmd)
      ELSE Ret([m1 EXCEPT !.tides = tides, !.tideConditions = conditions], NoCmd)

\* OnZonesFound with a failed lookup that is dropped
OnZonesFoundDropsFailure(mm, zones, cause) ==
  IF cause # "" THEN Ret(mm, NoCmd)
  ELSE IF Len(zones) = 0
    THEN Ret([mm EXCEPT !.err = <<"no marine zones found near '",
                                  mm.searchQuery, "'">>,
                        !.state = "Error"], NoCmd)
  ELSE Ret([mm EXCEPT !.zones = zones,
                      !.zoneList = createList(zones),
                      !.state = "ZoneList"], NoCmd)

\* case zonesFoundMsg
OnZonesFound(mm, zones, cause) ==
  IF cause # ""
    THEN Ret([mm EXCEPT !.err = Errorf("finding zones failed", cause),
                        !.state = "Error"], NoCmd)
  ELSE IF Len(zones) = 0
    THEN Ret([mm EXCEPT !.err = <<"no marine zones found near '",
                                  mm.searchQuery, "'">>,
                        !.state = "Error"], NoCmd)
  ELSE Ret([mm EXCEPT !.zones = zones,
                      !.zoneList = createList(zones),
                      !.state = "ZoneList"], NoCmd)

\* EnterDisplay with the wait for both flags in every revision
EnterDisplayWaits(r, mm) ==
  IF ~mm.loadingWeather /\ ~mm.loadingAlerts
    THEN [mm EXCEPT !.state = "Display"] ELSE mm

\* the move to Display at the end of case zoneWeatherFetchedMsg and of case
\* zoneAlertsFetchedMsg
EnterDisplay(r, mm) ==
  IF r = "zones"
    THEN IF ~mm.loadingWeather /\ ~mm.loadingAlerts
           THEN [mm EXCEPT !.state = "Display"] ELSE mm
    ELSE IF mm.state # "Display" THEN [mm EXCEPT !.state = "Display"] ELSE mm

\* case zoneWeatherFetchedMsg
OnZoneWeatherFetched(r, mm, conditions, forecast, cause) ==
  LET m1 == [mm EXCEPT !.loadingWeather = FALSE]
      m2 == IF cause # "" THEN m1
            ELSE [m1 EXCEPT !.weather = conditions, !.forecast = forecast]
  IN  Ret(EnterDisplay(r, m2), NoCmd)

\* case zoneAlertsFetchedMsg
OnZoneAlertsFetched(r, mm, alerts, cause) ==
  LET m1 == [mm EXCEPT !.loadingAlerts = FALSE]
      m2 == IF cause # "" THEN m1 ELSE [m1 EXCEPT !.alerts = alerts]
  IN  Ret(EnterDisplay(r, m2), NoCmd)

\* case directLoadStationMsg (revision "tides")
OnDirectLoadStation(mm, zone, cause) ==
  IF cause # ""
    THEN Ret([mm EXCEPT !.err = <<"failed to load station '",
                                  mm.initialStationCode, "'", cause>>,
                        !.state = "Error"], NoCmd)
  ELSE Ret([mm EXCEPT !.selectedZone = zone,
                      !.state = "Loading",
                      !.loadingWeather = TRUE,
                      !.loadingAlerts = TRUE],
           One(fetchZoneWeather(zone.Code)) (+) One(fetchZoneAlerts(zone.Code)))

(***************************************************************************)
(* Update: the handlers of the key presses.                                 *)
(***************************************************************************)
\* the values a text input can hold after a key press
SearchInputs == Queries \cup {""}

SaveInputs == TypedNames \cup {""}

\* the global quit keys: 'q' is text in the two input states of "ports"
IsQuit(r, mm, key) ==
  \/ key = "ctrl+c"
  \/ key = "q" /\ ~(r = "ports" /\ mm.state \in {"Search", "SavePrompt"})

\* OnSearchEnter without the test for the empty query
OnSearchEnterSubmitsEmpty(mm) ==
  Ret([mm EXCEPT !.searchQuery = mm.searchInput,
                 !.err = NoErr,
                 !.state = "Loading"],
      One(geocodeLocation(mm.searchInput)))

\* Model.handleSearchInput, Enter
OnSearchEnter(mm) ==
  IF mm.searchInput = "" THEN Ret(mm, NoCmd)
  ELSE Ret([mm EXCEPT !.searchQuery = mm.searchInput,
                      !.err = NoErr,
                      !.state = "Loading"],
           One(geocodeLocation(mm.searchInput)))

\* Model.handleSearchInput, any other key: the text input takes it
OnSearchType(mm, value) ==
  Ret([mm EXCEPT !.err = NoErr, !.searchInput = value], NoCmd)

\* handleZoneList with a selection that leaves the alerts in place
handleZoneListKeepsAlerts(r, mm, key) ==
  IF key = "enter" /\ HasSelectedItem(mm.zoneList)
    THEN LET zone == SelectedItem(mm.zoneList)
         IN  IF r = "ports"
               THEN Ret([mm EXCEPT !.selectedZone = zone,
                                   !.state = "SavePrompt",
                                   !.saveInput =
                                      IF mm.location # NilLocation
                                         /\ mm.location.Name # ""
                                        THEN mm.location.Name
                                        ELSE mm.searchQuery], NoCmd)
               ELSE Ret([mm EXCEPT !.selectedZone = zone,
                                   !.state = "Loading",
                                   !.loadingWeather = TRUE,
                                   !.loadingAlerts = TRUE,
                                   !.weather = NilData,
                                   !.forecast = NilData],
                        One(fetchZoneWeather(zone.Code))
                        (+) One(fetchZoneAlerts(zone.Code)))
  ELSE IF key \in {"s", "esc"} THEN Ret([mm EXCEPT !.state = "Search"], NoCmd)
  ELSE LET m1 == [mm EXCEPT !.zoneList = listUpdate(mm.zoneList, key)]
       IN  IF r = "zones" /\ m1.state = "Loading"
              /\ ~m1.loadingWeather /\ ~m1.loadingAlerts
             THEN Ret([m1 EXCEPT !.state = "Display"], NoCmd)
             ELSE Ret(m1, NoCmd)

\* Model.handleZoneList
handleZoneList(r, mm, key) ==
  IF key = "enter" /\ HasSelectedItem(mm.zoneList)
    THEN LET zone == SelectedItem(mm.zoneList)
         IN  IF r = "ports"
               THEN Ret([mm EXCEPT !.selectedZone = zone,
                                   !.state = "SavePrompt",
                                   !.saveInput =
                                      IF mm.location # NilLocation
                                         /\ mm.location.Name # ""
                                        THEN mm.location.Name
                                        ELSE mm.searchQuery], NoCmd)
               ELSE Ret([mm EXCEPT !.selectedZone = zone,
                                   !.state = "Loading",
                                   !.loadingWeather = TRUE,
                                   !.loadingAlerts = TRUE,
                                   !.weather = NilData,
                                   !.forecast = NilData,
                                   !.alerts = NilData],
                        One(fetchZoneWeather(zone.Code))
                        (+) One(fetchZoneAlerts(zone.Code)))
  ELSE IF key \in {"s", "esc"} THEN Ret([mm EXCEPT !.state = "Search"], NoCmd)
  ELSE LET m1 == [mm EXCEPT !.zoneList = listUpdate(mm.zoneList, key)]
       IN  IF r = "zones" /\ m1.state = "Loading"
              /\ ~m1.loadingWeather /\ ~m1.loadingAlerts
             THEN Ret([m1 EXCEPT !.state = "Display"], NoCmd)
             ELSE Ret(m1, NoCmd)

\* OnDisplayKey with a reset that leaves the location in place
OnDisplayKeyKeepsLocation(r, mm, key) ==
  IF r = "ports"
    THEN IF key = "e" THEN Ret([mm EXCEPT !.state = "SavedPorts"], NoCmd)
         ELSE Ret(mm, NoCmd)
    ELSE IF key = "s"
      THEN Ret([mm EXCEPT !.state = "Search",
                          !.searchInput = "",
                          !.selectedZone = NilZone,
                          !.weather = NilData,
                          !.forecast = NilData,
                          !.alerts = NilData,
                          !.zones = <<>>], NoCmd)
      ELSE Ret(mm, NoCmd)

\* case StateDisplay of the key switch
OnDisplayKey(r, mm, key) ==
  IF r = "ports"
    THEN IF key = "e" THEN Ret([mm EXCEPT !.state = "SavedPorts"], NoCmd)
         ELSE Ret(mm, NoCmd)
    ELSE IF key = "s"
      THEN Ret([mm EXCEPT !.state = "Search",
                          !.searchInput = "",
                          !.selectedZone = NilZone,
                          !.weather = NilData,
                          !.forecast = NilData,
                          !.alerts = NilData,
                          !.location = NilLocation,
                          !.zones = <<>>], NoCmd)
      ELSE Ret(mm, NoCmd)

\* OnErrorKey with the error left in place
OnErrorKeyKeepsErr(mm) == Ret([mm EXCEPT !.state = "Search"], NoCmd)

\* case StateError of the key switch
OnErrorKey(mm) == Ret([mm EXCEPT !.state = "Search", !.err = NoErr], NoCmd)

\* Model.handleSavedPorts
handleSavedPorts(mm, key) ==
  IF key = "enter" /\ HasSelectedItem(mm.portList)
    THEN loadPort(mm, SelectedItem(mm.portList))
  ELSE IF key = "n" THEN Ret([mm EXCEPT !.state = "Search"], NoCmd)
  ELSE IF key = "esc"
    THEN IF mm.selectedZone # NilZone
           THEN Ret([mm EXCEPT !.state = "Display"], NoCmd)
           ELSE Ret(mm, NoCmd)
  ELSE IF key = "d" /\ HasSelectedItem(mm.portList)
    THEN Ret([mm EXCEPT !.portToDelete = SelectedItem(mm.portList),
                        !.state = "ConfirmDelete"], NoCmd)
  ELSE Ret([mm EXCEPT !.portList = listUpdate(mm.portList, key)], NoCmd)

\* Model.handleSavePrompt, Esc and Enter
handleSavePrompt(mm, key) ==
  IF key = "esc" THEN Ret([mm EXCEPT !.state = "Display"], NoCmd)
  ELSE IF key = "enter"
    THEN IF mm.saveInput = "" THEN Ret(mm, NoCmd)
         ELSE Ret([mm EXCEPT !.saving = TRUE],
                  One(savePort(mm.saveInput, mm.searchQuery,
                               mm.selectedZone.Code)))
  ELSE Ret(mm, NoCmd)

\* Model.handleSavePrompt, any other key: the text input takes it
OnSaveType(mm, value) == Ret([mm EXCEPT !.saveInput = value], NoCmd)

\* Model.handleConfirmDelete
handleConfirmDelete(mm, key) ==
  IF key = "y"
    THEN IF mm.portToDelete # NilPort
           THEN Ret(mm, One(deletePort(mm.portToDelete.Name)))
           ELSE Ret(mm, NoCmd)
  ELSE IF key \in {"n", "esc"}
    THEN Ret([mm EXCEPT !.portToDelete = NilPort, !.state = "SavedPorts"], NoCmd)
  ELSE Ret(mm, NoCmd)

(***************************************************************************)
(* Actions.  One call of Update is one step: the Model and the commands it  *)
(* returns replace m and join tasks together.                               *)
(***************************************************************************)
Msg(kind, arg) == [kind |-> kind, arg |-> arg]

Outcome(cause) == IF cause = "" THEN "ok" ELSE "err"

Causes == ErrCauses \cup {""}

\* Completed with a command that ends without a message for Update
CompletedDropsMessage(t, ret, msg) ==
  /\ tasks' = tasks (-) One(t)
  /\ UNCHANGED <<db, procs, conn, geo, cache, coder, rev, m, last, prov, running, pressed>>

\* Update has handled the completion message of command t
Completed(t, ret, msg) ==
  /\ m' = ret.m
  /\ tasks' = (tasks (-) One(t)) (+) ret.cmds
  /\ last' = msg
  /\ UNCHANGED <<db, procs, conn, geo, cache, coder, rev, prov, running, pressed>>

InFlight(kind) == {t \in BagToSet(tasks) : t.kind = kind}

\* Update has handled a key press.  A run has at most MaxKeys of them, a key
\* that would put more than MaxTasks commands in flight is not pressed, and
\* none is pressed before the message of initiateProvisioning, which returns
\* at once, has been handled.
Pressed(ret, key) ==
  /\ pressed < MaxKeys
  /\ InFlight("initiateProvisioning") = {}
  /\ ret.cmds # NoCmd => BagCardinality(tasks (+) ret.cmds) =< MaxTasks
  /\ pressed' = pressed + 1
  /\ m' = ret.m
  /\ tasks' = tasks (+) ret.cmds
  /\ last' = Msg("key", key)
  /\ UNCHANGED <<db, procs, conn, geo, cache, coder, rev, store, prov, running>>

\* the global quit keys: Update returns tea.Quit, the program exits and its
\* goroutines end with it
Quit ==
  /\ running
  /\ \E key \in QuitKeys :
       /\ IsQuit(rev, m, key)
       /\ last' = Msg("key", key)
  /\ running' = FALSE
  /\ tasks' = EmptyBag
  /\ prov' = NoProv
  /\ UNCHANGED <<db, procs, conn, geo, cache, coder, rev, m, store, pressed>>

SearchEnter ==
  /\ running /\ m.state = "Search"
  /\ Pressed(OnSearchEnter(m), "enter")

SearchType ==
  /\ running /\ m.state = "Search"
  /\ \E value \in SearchInputs : Pressed(OnSearchType(m, value), "text")

ZoneListKey ==
  /\ running /\ m.state = "ZoneList"
  /\ \E key \in ZoneListKeys : Pressed(handleZoneList(rev, m, key), key)

DisplayKey ==
  /\ running /\ m.state = "Display"
  /\ \E key \in DisplayKeys : Pressed(OnDisplayKey(rev, m, key), key)

ErrorKey ==
  /\ running /\ m.state = "Error"
  /\ \E key \in ErrorKeys : Pressed(OnErrorKey(m), key)

\* Loading and Provisioning have no case in the key switch
IdleKey ==
  /\ running /\ m.state \in {"Loading", "Provisioning"}
  /\ \E key \in IdleKeys : Pressed(Ret(m, NoCmd), key)

SavedPortsKey ==
  /\ running /\ m.state = "SavedPorts"
  /\ \E key \in SavedPortsKeys : Pressed(handleSavedPorts(m, key), key)

SavePromptKey ==
  /\ running /\ m.state = "SavePrompt"
  /\ \E key \in SavePromptKeys : Pressed(handleSavePrompt(m, key), key)

SaveType ==
  /\ running /\ m.state = "SavePrompt"
  /\ \E value \in SaveInputs : Pressed(OnSaveType(m, value), "text")

ConfirmDeleteKey ==
  /\ running /\ m.state = "ConfirmDelete"
  /\ \E key \in ConfirmDeleteKeys : Pressed(handleConfirmDelete(m, key), key)

\* geocodeLocation: Geocoder.Geocode under a 10 s timeout
GeocodeDone ==
  /\ running
  /\ \E t \in InFlight("geocodeLocation"), cause \in Causes :
       /\ cause = "" => t.a \in Queries
       /\ Completed(t, OnGeocode(rev, m, LocationOf(t.a), cause),
                    Msg("geocodeMsg", Outcome(cause)))
  /\ UNCHANGED store

\* findNearbyZones: GetNearbyMarineZones within 50 miles
ZonesFound ==
  /\ running
  /\ \E t \in InFlight("findNearbyZones"), cause \in Causes,
        codes \in ZoneResults :
       /\ cause # "" => codes = <<>>
       /\ Completed(t, OnZonesFound(m, [i \in 1..Len(codes) |-> ZoneInfo(codes[i])],
                                    cause),
                    Msg("zonesFoundMsg",
                        IF cause # "" THEN "err"
                        ELSE IF codes = <<>> THEN "empty" ELSE "ok"))
  /\ UNCHANGED store

\* findNearestTideStation: FindNearbyStations within 100 miles
TideStationFound ==
  /\ running
  /\ \E t \in InFlight("findNearestTideStation"), cause \in Causes,
        stations \in StationResults :
       /\ cause # "" => stations = <<>>
       /\ Completed(t, OnTideStationFound(m, stations, cause),
                    Msg("tideStationFoundMsg",
                        IF cause # "" THEN "err"
                        ELSE IF stations = <<>> THEN "empty" ELSE "ok"))
  /\ UNCHANGED store

\* fetchTideData: the error is that of the tide predictions; the
\* meteorological data may be missing without one
TideDataFetched ==
  /\ running
  /\ \E t \in InFlight("fetchTideData"), cause \in Causes, met \in BOOLEAN :
       /\ cause # "" => ~met
       /\ Completed(t, OnTideDataFetched(m, Tides(t.a),
                                         IF met THEN MetData(t.a) ELSE NilData,
                                         cause),
                    Msg("tideDataFetchedMsg", Outcome(cause)))
  /\ UNCHANGED store

\* fetchZoneWeather: GetMarineForecastByZone under a 30 s timeout
ZoneWeatherFetched ==
  /\ running
  /\ \E t \in InFlight("fetchZoneWeather"), cause \in Causes :
       Completed(t, OnZoneWeatherFetched(rev, m, Conditions(t.a), Forecast(t.a),
                                         cause),
                 Msg("zoneWeatherFetchedMsg", Outcome(cause)))
  /\ UNCHANGED store

\* fetchZoneAlerts: GetActiveAlertsByZone under a 30 s timeout
ZoneAlertsFetched ==
  /\ running
  /\ \E t \in InFlight("fetchZoneAlerts"), cause \in Causes :
       Completed(t, OnZoneAlertsFetched(rev, m, Alerts(t.a), cause),
                 Msg("zoneAlertsFetchedMsg", Outcome(cause)))
  /\ UNCHANGED store

\* directLoadStation: GetZoneInfoByCode
DirectLoadStation ==
  /\ running
  /\ \E t \in InFlight("directLoadStation"), cause \in Causes :
       /\ cause = "" => t.a \in ZoneCodes
       /\ Completed(t, OnDirectLoadStation(m, ZoneInfo(t.a), cause),
                    Msg("directLoadStationMsg", Outcome(cause)))
  /\ UNCHANGED store

\* fetchSavedPorts: Service.ListPorts
PortsFetched ==
  /\ running
  /\ \E t \in InFlight("fetchSavedPorts"), cause \in Causes :
       Completed(t, OnPortsFetched(m, IF cause = "" THEN ListPorts(store)
                                      ELSE <<>>, cause # ""),
                 Msg("portsFetchedMsg", Outcome(cause)))
  /\ UNCHANGED store

\* fetchPortByName: ListPorts, then the first row of that name
PortFetched ==
  /\ running
  /\ \E t \in InFlight("fetchPortByName"), cause \in Causes :
       LET rows == {r \in store : r.Name = t.a}
           e == IF cause # "" THEN Errorf("querying ports", cause)
                ELSE IF rows = {} THEN <<"port not found: ", t.a>>
                ELSE NoErr
       IN  Completed(t, OnPortFetched(m, IF e = NoErr THEN CHOOSE r \in rows : TRUE
                                         ELSE NilPort, e),
                     Msg("portFetchedMsg", IF e = NoErr THEN "ok" ELSE "err"))
  /\ UNCHANGED store

\* Service.CreatePort: geocode the location, find the nearest tide station
\* within 50 miles, build the port and save it
CreatePort(name, inputLocation, marineZoneCode, station) ==
  populateLocationFields(
    [NilPort EXCEPT !.Name = name,
                    !.MarineZoneID = marineZoneCode,
                    !.TideStationID = station,
                    !.Point = LocationOf(inputLocation).Point],
    inputLocation)

\* savePort: Service.CreatePort; it fails when the geocoding, the station
\* lookup or the write fails, or when no station is near
PortSaved ==
  /\ running
  /\ \E t \in InFlight("savePort"), cause \in Causes, station \in StationIDs :
       /\ cause = "" => t.b \in Queries
       /\ LET port == CreatePort(t.a, t.b, t.c, station)
              e == IF cause = "" THEN NoErr ELSE Errorf("saving port", cause)
          IN  /\ store' = IF cause = "" THEN SavePort(store, port) ELSE store
              /\ Completed(t, OnPortSaved(m, port, e),
                           Msg("portSavedMsg", Outcome(cause)))

\* deletePort: Service.DeletePort
PortDeleted ==
  /\ running
  /\ \E t \in InFlight("deletePort"), cause \in Causes :
       /\ store' = IF cause = "" THEN DeletePort(store, t.a) ELSE store
       /\ Completed(t, OnPortDeleted(m, t.a,
                                     IF cause = "" THEN NoErr
                                     ELSE Errorf("deleting port", cause)),
                    Msg("portDeletedMsg", Outcome(cause)))

(***************************************************************************)
(* Provisioning: the goroutine initiateProvisioning starts, its unbuffered  *)
(* progress and result channels, and the two waiter commands.               *)
(*   pc = "zones", "zip"  a phase is running and may send a progress string *)
(*   pc = "result"        the goroutine is at resultChan <- err             *)
(*   pc = "done"          the progress channel is closed                    *)
(***************************************************************************)
\* initiateProvisioning: make the channels, start the goroutine and return
\* provisioningStartedMsg
ProvisioningStarted ==
  /\ running
  /\ \E t \in InFlight("initiateProvisioning") :
       /\ m' = OnProvisioningStarted(m).m
       /\ tasks' = (tasks (-) One(t)) (+) OnProvisioningStarted(m).cmds
  /\ prov' = [pc |-> "zones", sent |-> 0, cause |-> ""]
  /\ last' = Msg("provisioningStartedMsg", "ok")
  /\ UNCHANGED <<db, procs, conn, geo, cache, coder, rev, store, running, pressed>>

\* progressChan <- msg meets the receive of a waitForProvisionStatus
ProvisionSendStatus ==
  /\ prov.pc \in {"zones", "zip"}
  /\ prov.sent < MaxStatus
  /\ waitForProvisionStatus \in BagToSet(tasks)
  /\ tasks' = (tasks (-) One(waitForProvisionStatus))
              (+) One(provisionStatusMsg(IF prov.pc = "zones"
                                           THEN "Building marine zones database..."
                                           ELSE "Building zipcode database..."))
  /\ prov' = [prov EXCEPT !.sent = @ + 1]
  /\ UNCHANGED <<db, procs, conn, geo, cache, coder, rev, m, store, running, last, pressed>>

\* a phase returns: the zones phase is followed by the zipcode phase unless
\* it failed
ProvisionPhaseReturns ==
  /\ prov.pc \in {"zones", "zip"}
  /\ \E cause \in Causes :
       prov' = IF prov.pc = "zones" /\ cause = ""
                 THEN [pc |-> "zip", sent |-> 0, cause |-> ""]
                 ELSE [pc |-> "result", sent |-> prov.sent, cause |-> cause]
  /\ UNCHANGED <<db, procs, conn, geo, cache, coder, rev, m, tasks, store, running, last, pressed>>

\* ProvisionSendResult on a path that sends the result and closes nothing
ProvisionSendResultNoClose ==
  /\ prov.pc = "result"
  /\ waitForProvisionResult \in BagToSet(tasks)
  /\ tasks' = (tasks (-) One(waitForProvisionResult))
              (+) One(provisionResultMsg(prov.cause))
  /\ UNCHANGED <<db, procs, conn, geo, cache, coder, rev, m, store, prov, running, last, pressed>>

\* resultChan <- err meets the receive of waitForProvisionResult; the
\* goroutine then closes progressChan and ends
ProvisionSendResult ==
  /\ prov.pc = "result"
  /\ waitForProvisionResult \in BagToSet(tasks)
  /\ tasks' = (tasks (-) One(waitForProvisionResult))
              (+) One(provisionResultMsg(prov.cause))
  /\ prov' = [pc |-> "done", sent |-> 0, cause |-> ""]
  /\ UNCHANGED <<db, procs, conn, geo, cache, coder, rev, m, store, running, last, pressed>>

\* waitForProvisionStatus on the closed channel returns nil: no message
StatusWaiterReturnsNil ==
  /\ prov.pc = "done"
  /\ waitForProvisionStatus \in BagToSet(tasks)
  /\ tasks' = tasks (-) One(waitForProvisionStatus)
  /\ UNCHANGED <<db, procs, conn, geo, cache, coder, rev, m, store, prov, running, last, pressed>>

ProvisionStatus ==
  /\ running
  /\ \E t \in InFlight("provisionStatusMsg") :
       Completed(t, OnProvisionStatus(m, t.a), Msg("provisionStatusMsg", "ok"))
  /\ UNCHANGED store

ProvisionResult ==
  /\ running
  /\ \E t \in InFlight("provisionResultMsg") :
       Completed(t, OnProvisionResult(rev, m, t.a),
                 Msg("provisionResultMsg", Outcome(t.a)))
  /\ UNCHANGED store

\* the errors an errMsg can carry
ErrMsgs == {<<"program was killed">>}

\* Update is handed an errMsg.  No command of the program returns one; the
\* message reaches Update from outside, as in TestModel_Update_ErrorMsg, and
\* is counted with the key presses of the run.
ErrReceived ==
  /\ running
  /\ pressed < MaxKeys
  /\ InFlight("initiateProvisioning") = {}
  /\ \E e \in ErrMsgs :
       /\ m' = OnErr(m, e).m
       /\ tasks' = tasks (+) OnErr(m, e).cmds
  /\ pressed' = pressed + 1
  /\ last' = Msg("errMsg", "err")
  /\ UNCHANGED <<db, procs, conn, geo, cache, coder, rev, store, prov, running>>

Next ==
  \/ Quit
  \/ SearchEnter
  \/ SearchType
  \/ ZoneListKey
  \/ DisplayKey
  \/ ErrorKey
  \/ IdleKey
  \/ SavedPortsKey
  \/ SavePromptKey
  \/ SaveType
  \/ ConfirmDeleteKey
  \/ GeocodeDone
  \/ ZonesFound
  \/ TideStationFound
  \/ TideDataFetched
  \/ ZoneWeatherFetched
  \/ ZoneAlertsFetched
  \/ DirectLoadStation
  \/ PortsFetched
  \/ PortFetched
  \/ PortSaved
  \/ PortDeleted
  \/ ProvisioningStarted
  \/ ProvisionSendStatus
  \/ ProvisionPhaseReturns
  \/ ProvisionSendResult
  \/ StatusWaiterReturnsNil
  \/ ProvisionStatus
  \/ ProvisionResult

\* a --station argument that names no zone of the index
UnknownStation == "ANZ999"

\* the command lines with the unknown station code (main.go requires
\* --location with --station)
StationLines(r) ==
  IF r = "ports"
    THEN {[station |-> UnknownStation, location |-> "02633", port |-> ""]}
  ELSE IF r = "tides"
    THEN {[station |-> UnknownStation, location |-> "", port |-> ""]}
  ELSE {}

\* the start of the program on any command line, the ones with the unknown
\* station code included
InitStation ==
  /\ rev \in Revisions
  /\ \E cl \in CommandLines(rev) \cup StationLines(rev),
        needsProvisioning \in BOOLEAN :
       /\ m = NewModel(rev, cl.station, cl.location, cl.port)
       /\ tasks = InitCmd(rev, cl, needsProvisioning)
       /\ store \in (IF rev = "ports" /\ ~needsProvisioning
                       THEN InitialStores ELSE {{}})
  /\ prov = NoProv
  /\ running = TRUE
  /\ last = [kind |-> "init", arg |-> ""]
  /\ pressed = 0
  /\ db = NoDB
  /\ procs = NoProcs
  /\ conn = NoConn
  /\ geo = NoGeo
  /\ cache = NoCache
  /\ coder = NoCoder

SpecStation == InitStation /\ [][Next]_vars

Spec == Init /\ [][Next]_vars

\* the program under a scheduler that lets a provisioning phase that can
\* return do so, and runs a result waiter that can receive
SpecFair ==
  /\ Spec
  /\ WF_vars(ProvisionPhaseReturns)
  /\ WF_vars(ProvisionSendResult)

\* the program under a scheduler that runs every command to its end and hands
\* every message to Update: each command has a timeout or reads the local
\* database
SpecLive ==
  /\ SpecFair
  /\ WF_vars(GeocodeDone) /\ WF_vars(ZonesFound) /\ WF_vars(TideStationFound)
  /\ WF_vars(TideDataFetched) /\ WF_vars(ZoneWeatherFetched)
  /\ WF_vars(ZoneAlertsFetched) /\ WF_vars(DirectLoadStation)
  /\ WF_vars(PortsFetched) /\ WF_vars(PortFetched) /\ WF_vars(PortSaved)
  /\ WF_vars(PortDeleted) /\ WF_vars(ProvisioningStarted)
  /\ WF_vars(StatusWaiterReturnsNil) /\ WF_vars(ProvisionStatus)
  /\ WF_vars(ProvisionResult)

\* the program with errMsg among the messages Update is handed
NextErr == Next \/ ErrReceived

SpecErr == Init /\ [][NextErr]_vars

(***************************************************************************)
(* Provisioning of the index tables: zonelookup.ProvisionDatabase,          *)
(* geocoding.ProvisionZipcodeDatabaseWithProgress and                       *)
(* stations.ProvisionStationsDatabase, each call a sequence of steps on the *)
(* shared database file.  A statement outside a transaction is committed    *)
(* when it returns; the rows of an open transaction are in tx until Commit. *)
(***************************************************************************)
uiVars ==
  <<rev, m, tasks, store, prov, running, last, pressed, geo, cache, coder>>

Procs == 1..MaxTriggers

\* the call is between its first statement and its return
Active(p) == procs[p].pc \notin {"idle", "returned", "crashed"}

\* defer provisionMu.Unlock()
Unlocked(p) == IF db.mu = p THEN 0 ELSE db.mu

\* return e, with the deferred calls
Return(p, e) ==
  /\ procs' = [procs EXCEPT ![p].pc = "returned", ![p].err = e]
  /\ db' = [db EXCEPT !.mu = Unlocked(p)]

\* a caller enters the provisioning function of one index
Trigger ==
  \E p \in Procs, ph \in Phases :
    /\ procs[p].pc = "idle"
    /\ procs' = [procs EXCEPT ![p].phase = ph,
                              ![p].pc = IF ph = "stations" THEN "lock"
                                                           ELSE "probe"]
    /\ UNCHANGED <<db, conn, uiVars>>

\* provisionMu.Lock()
Lock ==
  \E p \in Procs :
    /\ procs[p].pc = "lock"
    /\ db.mu = 0
    /\ db' = [db EXCEPT !.mu = p]
    /\ procs' = [procs EXCEPT ![p].pc = "probe"]
    /\ UNCHANGED <<conn, uiVars>>

ProbeIgnoresTable ==
  \E p \in Procs :
    /\ procs[p].pc = "probe"
    /\ procs' = [procs EXCEPT ![p].pc = "fetch"]
    /\ UNCHANGED <<db, conn, uiVars>>

\* the existence probe: SELECT COUNT(*) FROM sqlite_master ... name = table
Probe ==
  \E p \in Procs :
    /\ procs[p].pc = "probe"
    /\ IF db.tables[procs[p].phase].exists
         THEN Return(p, "")
         ELSE /\ procs' = [procs EXCEPT ![p].pc = "fetch"]
              /\ UNCHANGED db
    /\ UNCHANGED <<conn, uiVars>>

\* the source data: download and unzip, the bundled CSV, or the station API
Fetch ==
  \E p \in Procs, ok \in BOOLEAN :
    /\ procs[p].pc = "fetch"
    /\ IF ok
         THEN /\ procs' = [procs EXCEPT ![p].pc = "create", ![p].built = TRUE]
              /\ UNCHANGED db
         ELSE Return(p, "fetch")
    /\ UNCHANGED <<conn, uiVars>>

\* CREATE TABLE marine_zones, or CREATE TABLE IF NOT EXISTS for the other
\* two; the statement is not part of a transaction
Create ==
  \E p \in Procs :
    /\ procs[p].pc = "create"
    /\ LET ph == procs[p].phase
       IN  IF ph = "zones"
             THEN IF db.tables[ph].exists
                    THEN Return(p, "creating table")
                    ELSE /\ db' = [db EXCEPT !.tables[ph] = Table({})]
                         /\ procs' = [procs EXCEPT ![p].pc = "insert"]
             ELSE /\ db' = [db EXCEPT !.tables[ph] =
                               IF @.exists THEN @ ELSE Table({})]
                  /\ procs' = [procs EXCEPT ![p].pc = "begin"]
    /\ UNCHANGED <<conn, uiVars>>

\* db.Begin()
Begin ==
  \E p \in Procs :
    /\ procs[p].pc = "begin"
    /\ procs' = [procs EXCEPT ![p].pc = "insert", ![p].tx = {}]
    /\ UNCHANGED <<db, conn, uiVars>>

\* one row: db.Exec(INSERT) for the zones, stmt.Exec inside the transaction
\* for the other two
Insert ==
  \E p \in Procs :
    /\ procs[p].pc = "insert"
    /\ procs[p].next <= TableRows
    /\ LET ph == procs[p].phase
           row == procs[p].next
       IN  IF ph = "zones"
             THEN /\ db' = [db EXCEPT !.tables[ph].rows = @ \cup {row}]
                  /\ procs' = [procs EXCEPT ![p].next = @ + 1]
             ELSE /\ procs' = [procs EXCEPT ![p].tx = @ \cup {row},
                                            ![p].next = @ + 1]
                  /\ UNCHANGED db
    /\ UNCHANGED <<conn, uiVars>>

\* the end of the build: tx.Commit() where there is a transaction, return nil
Commit ==
  \E p \in Procs :
    /\ procs[p].pc = "insert"
    /\ procs[p].next > TableRows
    /\ LET ph == procs[p].phase
       IN  /\ procs' = [procs EXCEPT ![p].pc = "returned", ![p].err = "",
                                     ![p].tx = {}]
           /\ db' = [db EXCEPT !.mu = Unlocked(p),
                               !.tables[ph].rows =
                                 IF ph = "zones" THEN @
                                                 ELSE @ \cup procs[p].tx]
    /\ UNCHANGED <<conn, uiVars>>

\* the process dies: every call in it ends where it is, open transactions
\* are rolled back when the file is next opened
Crash ==
  /\ \E p \in Procs : Active(p)
  /\ procs' = [p \in Procs |->
                 IF Active(p)
                   THEN [procs[p] EXCEPT !.pc = "crashed", !.tx = {}]
                   ELSE procs[p]]
  /\ db' = [db EXCEPT !.mu = 0]
  /\ UNCHANGED <<conn, uiVars>>

\* each table absent or built when the first call is made
InitDB ==
  /\ rev = "zones"
  /\ m = NewModel("zones", "", "", "")
  /\ tasks = EmptyBag
  /\ store = {}
  /\ prov = NoProv
  /\ running = TRUE
  /\ last = [kind |-> "init", arg |-> ""]
  /\ pressed = 0
  /\ db \in {[tables |-> t, mu |-> 0] : t \in [Phases -> {Absent, Table(AllRows)}]}
  /\ procs = NoProcs
  /\ conn = NoConn
  /\ geo = NoGeo
  /\ cache = NoCache
  /\ coder = NoCoder

NextDB ==
  \/ Trigger
  \/ Lock
  \/ Probe
  \/ Fetch
  \/ Create
  \/ Begin
  \/ Insert
  \/ Commit
  \/ Crash

SpecDB == InitDB /\ [][NextDB]_vars

(***************************************************************************)
(* The connections.  Each index package keeps its own handle behind its own *)
(* sync.Once (zonelookup.GetDB, stations.GetDB, geocoding.getZipcodeDB);    *)
(* the saved-port repository opens and closes connections in every call.    *)
(* A handle is the number of the sql.Open call that made it, 0 for nil.     *)
(***************************************************************************)
Callers == 1..MaxCallers

Ops == Packages \cup {"ports"}

\* how the function handed to once.Do can end
InitOutcomes(pkg) ==
  {"ok", "provision", "open"} \cup (IF pkg = "geocoding" THEN {"pragma"} ELSE {})

\* a goroutine calls GetDB of a package, or an operation of the repository
Call ==
  \E c \in Callers, op \in Ops :
    /\ conn.callers[c].pc = "idle"
    /\ conn' = [conn EXCEPT !.callers[c] = [@ EXCEPT !.op = op, !.pc = "enter"]]
    /\ UNCHANGED <<db, procs, uiVars>>

\* once.Do: the first caller starts the function, the others wait for it
OnceBegin ==
  \E c \in Callers :
    /\ conn.callers[c].pc = "enter"
    /\ conn.callers[c].op \in Packages
    /\ conn.once[conn.callers[c].op] = "new"
    /\ conn' = [conn EXCEPT !.once[conn.callers[c].op] = "running",
                            !.callers[c].pc = "init"]
    /\ UNCHANGED <<db, procs, uiVars>>

\* the function handed to once.Do: provision, sql.Open, PRAGMAs
OnceRun ==
  \E c \in Callers :
    /\ conn.callers[c].pc = "init"
    /\ LET pkg == conn.callers[c].op
       IN  \E outcome \in InitOutcomes(pkg) :
             conn' = [conn EXCEPT
               !.once[pkg] = "done",
               !.opens = IF outcome \in {"ok", "pragma"} THEN @ + 1 ELSE @,
               !.handle[pkg] =
                 IF outcome \in {"ok", "pragma"} THEN conn.opens + 1 ELSE @,
               !.initErr[pkg] = IF outcome = "ok" THEN "" ELSE outcome,
               !.callers[c].pc = "enter"]
    /\ UNCHANGED <<db, procs, uiVars>>

GetDBReturnsEarly ==
  \E c \in Callers :
    /\ conn.callers[c].pc = "enter"
    /\ conn.callers[c].op \in Packages
    /\ conn.once[conn.callers[c].op] # "new"
    /\ conn' = [conn EXCEPT
         !.callers[c] = [@ EXCEPT !.pc = "done",
                                  !.used = conn.handle[conn.callers[c].op],
                                  !.err = conn.initErr[conn.callers[c].op]]]
    /\ UNCHANGED <<db, procs, uiVars>>

\* return db, initErr
GetDBReturns ==
  \E c \in Callers :
    /\ conn.callers[c].pc = "enter"
    /\ conn.callers[c].op \in Packages
    /\ conn.once[conn.callers[c].op] = "done"
    /\ conn' = [conn EXCEPT
         !.callers[c] = [@ EXCEPT !.pc = "done",
                                  !.used = conn.handle[conn.callers[c].op],
                                  !.err = conn.initErr[conn.callers[c].op]]]
    /\ UNCHANGED <<db, procs, uiVars>>

\* database.EnsureUserSchema: its own connection, closed on return
EnsureUserSchema ==
  \E c \in Callers :
    /\ conn.callers[c].pc = "enter"
    /\ conn.callers[c].op = "ports"
    /\ conn' = [conn EXCEPT !.opens = @ + 1, !.callers[c].pc = "schema"]
    /\ UNCHANGED <<db, procs, uiVars>>

\* the repository's sql.Open for the statement, closed on return
RepositoryOpen ==
  \E c \in Callers :
    /\ conn.callers[c].pc = "schema"
    /\ conn' = [conn EXCEPT
         !.opens = @ + 1,
         !.callers[c] = [@ EXCEPT !.pc = "done", !.used = conn.opens + 1]]
    /\ UNCHANGED <<db, procs, uiVars>>

InitConn ==
  /\ rev = "zones"
  /\ m = NewModel("zones", "", "", "")
  /\ tasks = EmptyBag
  /\ store = {}
  /\ prov = NoProv
  /\ running = TRUE
  /\ last = [kind |-> "init", arg |-> ""]
  /\ pressed = 0
  /\ db = NoDB
  /\ procs = NoProcs
  /\ conn = NoConn
  /\ geo = NoGeo
  /\ cache = NoCache
  /\ coder = NoCoder

NextConn ==
  \/ Call
  \/ OnceBegin
  \/ OnceRun
  \/ GetDBReturns
  \/ EnsureUserSchema
  \/ RepositoryOpen

SpecConn == InitConn /\ [][NextConn]_vars

(***************************************************************************)
(* The lookups in the index tables: getNearbyMarineZonesFromDB,             *)
(* FindNearbyStations, getZoneInfoByCodeFromDB and GetStationByID.          *)
(* Coordinates are whole degrees, radii are miles, distances are            *)
(* thousandths of a mile.  A table is the sequence of its rows in the order *)
(* they were inserted.                                                      *)
(***************************************************************************)
Lats == {40, 70}

Lons == {0, 1, 2}

\* the radii the callers pass: 50.0 and 100.0
Radii == {50, 100}

Codes == {"A", "B"}

Kinds == {"zones", "stations"}

Entities == [code : Codes, lat : Lats, lon : Lons]

\* the order a SELECT without ORDER BY hands out the rows: by rowid, or by
\* the index on the two coordinates
ScanOrders == {"rowid", "index"}

SeqsUpTo(S, n) == UNION {[1..k -> S] : k \in 0..n}

\* tide_stations.id is the primary key, marine_zones.zone_code is not unique
Tables(kind) ==
  {t \in SeqsUpTo(Entities, MaxEntities) :
     kind = "stations" =>
       \A i, j \in 1..Len(t) : t[i].code = t[j].code => i = j}

Abs(x) == IF x < 0 THEN 0 - x ELSE x

\* math.Cos(lat*math.Pi/180), in millionths
CosMicro(lat) == IF lat = 40 THEN 766044 ELSE 342020

\* HaversineDistance with earthRadiusMiles = 3959.0, the float64 value of the
\* formula rounded to the thousandth of a mile
HaversineDistance(lat1, lon1, lat2, lon2) ==
  LET d == Abs(lon2 - lon1)
  IN  IF lat1 # lat2
        THEN (IF d = 0 THEN 2072928 ELSE IF d = 1 THEN 2073243 ELSE 2074191)
        ELSE IF d = 0 THEN 0
        ELSE IF lat1 = 40 THEN (IF d = 1 THEN 52932 ELSE 105861)
        ELSE (IF d = 1 THEN 23633 ELSE 47263)

\* WHERE lat BETWEEN lat-latDelta AND lat+latDelta AND lon BETWEEN ..., with
\* latDelta = R/69*1.5 and lonDelta = R/55*1.5 for the zones,
\* R/(69*cos(lat))*1.5 for the stations; each inequality multiplied out
InBox(kind, lat, lon, radius, e) ==
  /\ Abs(e.lat - lat) * 69 * 2 <= 3 * radius
  /\ IF kind = "zones"
       THEN Abs(e.lon - lon) * 55 * 2 <= 3 * radius
       ELSE Abs(e.lon - lon) * 69 * 2 * CosMicro(lat) <= 3 * radius * 1000000

SortByKeyKeepsOrder(s) == s

\* s ordered by the field k, equal keys in their order in s: what sort.Slice
\* with a strict less does to a slice of fewer than 12 elements (insertion
\* sort), and what an index scan does with the rowid behind the key
SortByKey(s) ==
  LET n == Len(s)
      Rank(i) == Cardinality({j \in 1..n :
                    \/ s[j].k < s[i].k
                    \/ s[j].k = s[i].k /\ j < i}) + 1
  IN  [p \in 1..n |-> s[CHOOSE i \in 1..n : Rank(i) = p]]

\* the rows of the table with their rowid, in the order of the scan
Scan(table, order) ==
  LET rows == [i \in 1..Len(table) |->
                 [row |-> i, code |-> table[i].code, lat |-> table[i].lat,
                  lon |-> table[i].lon,
                  k |-> IF order = "index"
                          THEN table[i].lat * 1000 + table[i].lon
                          ELSE i]]
  IN  SortByKey(rows)

FindNearbyUnfiltered(kind, table, order, lat, lon, radius) ==
  LET InQuery(r) == InBox(kind, lat, lon, radius, r)
      rows == SelectSeq(Scan(table, order), InQuery)
      found == [i \in 1..Len(rows) |->
                  [row |-> rows[i].row, code |-> rows[i].code,
                   Distance |-> HaversineDistance(lat, lon, rows[i].lat, rows[i].lon),
                   k |-> HaversineDistance(lat, lon, rows[i].lat, rows[i].lon)]]
  IN  IF kind = "stations" /\ Len(found) = 0
        THEN [list |-> <<>>, err |-> "no tide stations found"]
        ELSE [list |-> SortByKey(found), err |-> ""]

\* the nearby lookup: box query, distance filter, sort by distance
FindNearby(kind, table, order, lat, lon, radius) ==
  LET InQuery(r) == InBox(kind, lat, lon, radius, r)
      rows == SelectSeq(Scan(table, order), InQuery)
      dist == [i \in 1..Len(rows) |->
                  [row |-> rows[i].row, code |-> rows[i].code,
                   Distance |-> HaversineDistance(lat, lon, rows[i].lat, rows[i].lon),
                   k |-> HaversineDistance(lat, lon, rows[i].lat, rows[i].lon)]]
      Within(r) == r.Distance <= radius * 1000
      found == SelectSeq(dist, Within)
  IN  IF kind = "stations" /\ Len(found) = 0
        THEN [list |-> <<>>, err |-> "no tide stations found"]
        ELSE [list |-> SortByKey(found), err |-> ""]

FindByCodeWithDistance(kind, table, code, lat, lon) ==
  LET hits == {i \in 1..Len(table) : table[i].code = code}
      first == CHOOSE i \in hits : \A j \in hits : i <= j
  IN  IF hits = {}
        THEN [list |-> <<>>, err |-> "not found"]
        ELSE [list |-> <<[row |-> first, code |-> code,
                          Distance |-> HaversineDistance(lat, lon,
                                         table[first].lat, table[first].lon),
                          k |-> 0]>>,
              err |-> ""]

\* the lookup by code: QueryRow(... WHERE zone_code = ?) hands out the first
\* row with the code, sql.ErrNoRows becomes the not-found error
FindByCode(kind, table, code, lat, lon) ==
  LET hits == {i \in 1..Len(table) : table[i].code = code}
      first == CHOOSE i \in hits : \A j \in hits : i <= j
  IN  IF hits = {}
        THEN [list |-> <<>>, err |-> "not found"]
        ELSE [list |-> <<[row |-> first, code |-> code, Distance |-> 0,
                          k |-> 0]>>,
              err |-> ""]

\* a caller runs the nearby lookup on its inputs
NearbyCall ==
  /\ geo.pc = "call"
  /\ LET r == FindNearby(geo.kind, geo.table, geo.order, geo.lat, geo.lon,
                         geo.radius)
     IN  geo' = [geo EXCEPT !.pc = "done", !.op = "nearby",
                            !.list = r.list, !.err = r.err]
  /\ UNCHANGED <<cache, coder, db, procs, conn, rev, m, tasks, store, prov,
               running, last,
                 pressed>>

\* a caller runs the lookup by code
ByCodeCall ==
  /\ geo.pc = "call"
  /\ \E code \in Codes :
       LET r == FindByCode(geo.kind, geo.table, code, geo.lat, geo.lon)
       IN  geo' = [geo EXCEPT !.pc = "done", !.op = "code", !.code = code,
                              !.list = r.list, !.err = r.err]
  /\ UNCHANGED <<cache, coder, db, procs, conn, rev, m, tasks, store, prov,
               running, last,
                 pressed>>

\* the inputs: the table, the scan order of the planner, the point and the
\* radius
InitGeo ==
  /\ rev = "zones"
  /\ m = NewModel("zones", "", "", "")
  /\ tasks = EmptyBag
  /\ store = {}
  /\ prov = NoProv
  /\ running = TRUE
  /\ last = [kind |-> "init", arg |-> ""]
  /\ pressed = 0
  /\ db = NoDB
  /\ procs = NoProcs
  /\ conn = NoConn
  /\ cache = NoCache
  /\ coder = NoCoder
  /\ \E kind \in Kinds, order \in ScanOrders, lat \in Lats, lon \in Lons,
        radius \in Radii :
       \E table \in Tables(kind) :
         geo = [pc |-> "call", kind |-> kind, table |-> table,
                order |-> order, lat |-> lat, lon |-> lon, radius |-> radius,
                op |-> "", code |-> "", list |-> <<>>, err |-> ""]

NextGeo ==
  \/ NearbyCall
  \/ ByCodeCall

SpecGeo == InitGeo /\ [][NextGeo]_vars

(***************************************************************************)
(* Properties.                                                              *)
(***************************************************************************)
\* Update has handled this key in this state
KeyStep(state, key) ==
  /\ m.state = state
  /\ pressed' = pressed + 1
  /\ last' = Msg("key", key)

\* no fetch of the weather+alert batch is in flight
BatchDone == InFlight("fetchZoneWeather") = {} /\ InFlight("fetchZoneAlerts") = {}

\* C1: once both completion messages of a weather+alert batch have been
\* handled the state is Display, and the data of the fetch handled last is
\* present if it succeeded and absent if it failed.
C1_DegradeDontBlock ==
  (/\ running
   /\ last.kind \in {"zoneWeatherFetchedMsg", "zoneAlertsFetchedMsg"}
   /\ BatchDone)
  => /\ m.state = "Display"
     /\ last = Msg("zoneWeatherFetchedMsg", "ok")
          => m.weather # NilData /\ m.forecast # NilData
     /\ last = Msg("zoneWeatherFetchedMsg", "err")
          => m.weather = NilData /\ m.forecast = NilData
     /\ last = Msg("zoneAlertsFetchedMsg", "ok") => m.alerts # NilData
     /\ last = Msg("zoneAlertsFetchedMsg", "err") => m.alerts = NilData

\* C2 as claimed: a weather or alert completion handled in Loading leaves the
\* state Loading while a loading flag of the batch is still true.
C2_WaitsForAllFlags ==
  [][((ZoneWeatherFetched \/ ZoneAlertsFetched)
      /\ m.state = "Loading"
      /\ (m'.loadingWeather \/ m'.loadingAlerts))
     => m'.state = "Loading"]_vars

\* C2 as amended: a weather or alert completion leaves the state Display when
\* both loading flags are false after it; the revisions "ports" and "tides"
\* enter Display on every such completion, also while the other flag is still
\* true, and only the revision "zones" leaves the state as it is while a flag
\* is still true.
C2_EntryPolicy ==
  [][(ZoneWeatherFetched \/ ZoneAlertsFetched)
     => /\ (~m'.loadingWeather /\ ~m'.loadingAlerts) => m'.state = "Display"
        /\ rev # "zones" => m'.state = "Display"
        /\ (rev = "zones" /\ (m'.loadingWeather \/ m'.loadingAlerts))
             => m'.state = m.state]_vars

\* the first completion of a batch has put "ports" in Display
C2_DisplayOnFirstCompletion ==
  /\ rev = "ports"
  /\ last.kind = "zoneWeatherFetchedMsg"
  /\ m.state = "Display"
  /\ m.loadingAlerts
  /\ InFlight("fetchZoneAlerts") # {}

\* the user changes the selected entity: 's' in Display starts a new search,
\* Enter in SavedPorts loads another saved port
EntitySwitch ==
  \/ KeyStep("Display", "s") /\ m'.state = "Search"
  \/ /\ KeyStep("SavedPorts", "enter")
     /\ m'.state = "Loading"
     /\ m.selectedZone # NilZone
     /\ m'.selectedZone # m.selectedZone

\* C3: after the selected entity has changed the model holds no weather,
\* forecast, alert or tide value of the entity selected before.
C3_NoCarryOver ==
  [][EntitySwitch
     => /\ m'.weather = NilData /\ m'.forecast = NilData
        /\ m'.alerts = NilData
        /\ m'.tides = NilData /\ m'.tideConditions = NilData]_vars

ZoneSelected == KeyStep("ZoneList", "enter") /\ HasSelectedItem(m.zoneList)

Handled(kind, outcome) ==
  /\ tasks' # tasks
  /\ last' = Msg(kind, outcome)

\* the failures of the lookups, of the saved-port table and of provisioning
\* that Update is told of
LookupFailed ==
  \/ GeocodeDone /\ Handled("geocodeMsg", "err")
  \/ ZonesFound /\ Handled("zonesFoundMsg", "err")
  \/ DirectLoadStation /\ Handled("directLoadStationMsg", "err")
  \/ PortFetched /\ Handled("portFetchedMsg", "err")
  \/ PortSaved /\ Handled("portSavedMsg", "err")
  \/ PortDeleted /\ Handled("portDeletedMsg", "err")
  \/ ProvisionResult /\ Handled("provisionResultMsg", "err")

StationLookupFailed == TideStationFound /\ Handled("tideStationFoundMsg", "err")

PortListFailed == PortsFetched /\ Handled("portsFetchedMsg", "err")

\* the errors those failures carry
Failures ==
  {Errorf(prefix, cause) :
     prefix \in {"geocoding failed", "finding zones failed", "querying ports",
                 "saving port", "deleting port", "provisioning failed"},
     cause \in ErrCauses}
  \cup {<<"failed to load station '", code, "'", cause>> :
          code \in ZoneCodes, cause \in ErrCauses}
  \cup {<<"port not found: ", name>> : name \in TypedNames}

\* C6 as claimed: every geocode, zone-lookup, station-lookup, backing-store or
\* provisioning failure handled by Update leaves the state Error and the
\* failure in the error field.
C6_EveryFailureSurfaces ==
  [][(LookupFailed \/ StationLookupFailed \/ PortListFailed)
     => m'.state = "Error" /\ m'.err \in Failures]_vars

\* C6 as amended: a failure of the geocoding, of the zone lookup (by point or
\* by code), of the fetch of a port by name, of a save or delete of a port, or
\* of provisioning leaves the state Error and the failure in the error field;
\* a station-lookup failure clears the tide station and the station list and
\* leaves the state and the error field as they are; a failure of the fetch
\* of the saved-port list leaves the state Search and the error field as it
\* is.
C6_FailuresSurfaceButTwo ==
  [][/\ LookupFailed => m'.state = "Error" /\ m'.err \in Failures
     /\ StationLookupFailed
          => /\ m'.state = m.state /\ m'.err = m.err
             /\ m'.tideStation = "nil" /\ m'.tideStations = <<>>
     /\ PortListFailed => m'.state = "Search" /\ m'.err = m.err]_vars

\* a failed zone lookup has put the reducer in Error
C6_ZoneLookupFailureShown ==
  /\ last = Msg("zonesFoundMsg", "err")
  /\ m.state = "Error"
  /\ m.err = Errorf("finding zones failed", "timeout")
  /\ m.location # NilLocation

\* C7: a failed weather, tide or alert completion, in whatever state it is
\* handled, does not take the state to Error, leaves the error field as it
\* is, and clears the loading flag of its own fetch and no other.
C7_FetchFailureSwallowed ==
  [][/\ (ZoneWeatherFetched /\ Handled("zoneWeatherFetchedMsg", "err"))
          => /\ m'.state = "Error" => m.state = "Error"
             /\ m'.err = m.err
             /\ ~m'.loadingWeather
             /\ m'.loadingAlerts = m.loadingAlerts
             /\ m'.loadingTides = m.loadingTides
     /\ (ZoneAlertsFetched /\ Handled("zoneAlertsFetchedMsg", "err"))
          => /\ m'.state = "Error" => m.state = "Error"
             /\ m'.err = m.err
             /\ ~m'.loadingAlerts
             /\ m'.loadingWeather = m.loadingWeather
             /\ m'.loadingTides = m.loadingTides
     /\ (TideDataFetched /\ Handled("tideDataFetchedMsg", "err"))
          => /\ m'.state = "Error" => m.state = "Error"
             /\ m'.err = m.err
             /\ ~m'.loadingTides
             /\ m'.loadingWeather = m.loadingWeather
             /\ m'.loadingAlerts = m.loadingAlerts]_vars

\* a failed tide fetch has been handled while the alert fetch of the batch is
\* still loading: no error, the alert flag still set
C7_TideFailureWhileLoading ==
  /\ last = Msg("tideDataFetchedMsg", "err")
  /\ m.state # "Error" /\ m.err = NoErr
  /\ ~m.loadingTides /\ m.tides = NilData
  /\ m.loadingAlerts
  /\ InFlight("fetchZoneAlerts") # {}

\* the query whose geocoded point a lookup was dispatched for
QueryOf(point) == CHOOSE q \in Queries : LocationOf(q).Point = point

\* C8: a zone lookup that returns no zone leaves the state Error and an error
\* message that names the query the lookup was made for.
C8_NoZonesNamesQuery ==
  [][\A t \in InFlight("findNearbyZones") :
       (/\ ZonesFound /\ Handled("zonesFoundMsg", "empty")
        /\ tasks' = tasks (-) One(t))
       => /\ m'.state = "Error"
          /\ m'.err = <<"no marine zones found near '", QueryOf(t.a), "'">>]_vars

\* the geocoding of the query submitted last from Search has succeeded, in a
\* revision that looks up tide stations
UserGeocodeDone(t) ==
  /\ rev # "zones"
  /\ m.searchQuery = t.a
  /\ GeocodeDone /\ Handled("geocodeMsg", "ok")
  /\ (tasks (-) One(t)) \sqsubseteq tasks'

\* C9: the successful geocoding of a query submitted from Search leaves the
\* state Loading and dispatches the nearby-zone and the nearby-station lookup
\* of the geocoded point.
C9_GeocodeStartsBothLookups ==
  [][\A t \in InFlight("geocodeLocation") :
       UserGeocodeDone(t)
       => LET point == LocationOf(t.a).Point
          IN  /\ m'.state = "Loading"
              /\ tasks' = (tasks (-) One(t))
                          (+) One(findNearbyZones(point))
                          (+) One(findNearestTideStation(point))]_vars

\* C10: Enter in Search on an empty input changes no field of the model and
\* dispatches no command.
C10_EmptyQueryIgnored ==
  [][(KeyStep("Search", "enter") /\ m.searchInput = "")
     => m' = m /\ tasks' = tasks]_vars

\* Enter has been pressed in Search on an empty input, after an earlier
\* search had failed
C10_EmptySubmitted ==
  /\ last = Msg("key", "enter")
  /\ m.state = "Search"
  /\ m.searchInput = ""
  /\ m.searchQuery # ""

\* C11: in Error every key press that is not a quit key leaves the state
\* Search and the error field empty.
C11_ErrorKeyRecovers ==
  [][\A key \in ErrorKeys :
       KeyStep("Error", key) => m'.state = "Search" /\ m'.err = NoErr]_vars

\* a key has taken the reducer from Error back to Search after a failed
\* search
C11_Recovered ==
  /\ rev # "ports"
  /\ last = Msg("key", "x")
  /\ m.state = "Search"
  /\ m.err = NoErr
  /\ m.searchQuery # ""

\* C12: an errMsg handled in any state leaves the state Error and the error
\* of the message in the error field.
C12_ErrMsgToError ==
  [][ErrReceived => m'.state = "Error" /\ m'.err \in ErrMsgs]_vars

\* an errMsg has been handled while a zone was displayed
C12_ErrMsgShown ==
  /\ last = Msg("errMsg", "err")
  /\ m.state = "Error"
  /\ m.err \in ErrMsgs
  /\ m.selectedZone # NilZone
  /\ m.weather # NilData

\* the command the startup priority chooses for the command line of the run
StartupChoice ==
  IF m.initialPortName # "" THEN fetchPortByName(m.initialPortName)
  ELSE IF m.initialStationCode # "" /\ m.initialLocation # ""
    THEN geocodeLocation(m.initialLocation)
  ELSE fetchSavedPorts

\* C13: in "ports" the first command is that of provisioning or the startup
\* choice; when a provisioning run has succeeded the startup choice is
\* dispatched then; and a fetch of the saved-port list that finds no port
\* leaves the state Search.
C13_StartupPriority ==
  /\ rev = "ports" => tasks \in {One(initiateProvisioning), One(StartupChoice)}
  /\ [][/\ (rev = "ports" /\ ProvisionResult
            /\ Handled("provisionResultMsg", "ok"))
           => tasks' = (tasks (-) One(provisionResultMsg("")))
                       (+) One(StartupChoice)
        /\ (PortsFetched /\ Handled("portsFetchedMsg", "ok") /\ store = {})
           => m'.state = "Search"]_vars

\* the status waiters blocked on the progress channel, and the status
\* messages a waiter has returned that Update has not handled yet
StatusWaiters == CopiesIn(waitForProvisionStatus, tasks)

StatusPending ==
  CopiesIn(provisionStatusMsg("Building marine zones database..."), tasks)
  + CopiesIn(provisionStatusMsg("Building zipcode database..."), tasks)

\* C14 as claimed: one status waiter is dispatched when provisioning starts
\* and one more with every status message handled, and never more than one
\* is outstanding.
C14_OneWaiterPerStatus ==
  /\ [](StatusWaiters =< 1)
  /\ [][/\ ProvisioningStarted => CopiesIn(waitForProvisionStatus, tasks') = 1
        /\ ProvisionStatus
             => CopiesIn(waitForProvisionStatus, tasks') = StatusWaiters + 1]_vars

\* C14 as amended: one status waiter is dispatched when provisioning starts
\* and one more with every status message handled while the channels are
\* held; a status message handled after the result message, which drops the
\* channels, dispatches none.  A waiter and an unhandled status message
\* together are never more than one.
C14_OneWaiterWhileChannelsHeld ==
  /\ [](StatusWaiters + StatusPending =< 1)
  /\ [][/\ ProvisioningStarted => CopiesIn(waitForProvisionStatus, tasks') = 1
        /\ ProvisionStatus
             => CopiesIn(waitForProvisionStatus, tasks')
                  = StatusWaiters + (IF m.provisionChannels THEN 1 ELSE 0)]_vars

\* a status message has been handled and its waiter dispatched again
C14_WaiterRearmed ==
  /\ last = Msg("provisionStatusMsg", "ok")
  /\ m.state = "Provisioning"
  /\ m.provisionStatus = "Building marine zones database..."
  /\ m.provisionChannels
  /\ StatusWaiters = 1

\* the result waiters blocked on the result channel, and the result messages
\* a waiter has returned that Update has not handled yet
ResultWaiters == CopiesIn(waitForProvisionResult, tasks)

ResultsPending ==
  CopiesIn(provisionResultMsg(""), tasks)
  + CopiesIn(provisionResultMsg("timeout"), tasks)

\* C15: while the goroutine runs one result waiter waits and no result has
\* been delivered; the goroutine ends only by delivering the outcome of its
\* path to that waiter and closing the progress channel, both once, and the
\* channel stays closed; and every path that has reached the result send
\* ends that way unless the program quits first.
C15_CloseOnceResultOnce ==
  /\ []((running /\ prov.pc \in {"zones", "zip", "result"})
          => ResultWaiters = 1 /\ ResultsPending = 0)
  /\ [](ResultWaiters + ResultsPending =< 1)
  /\ [][/\ (prov.pc # "done" /\ prov'.pc = "done")
             => /\ prov.pc = "result"
                /\ tasks' = (tasks (-) One(waitForProvisionResult))
                            (+) One(provisionResultMsg(prov.cause))
        /\ (prov.pc = "done" /\ running') => prov'.pc = "done"
        /\ (prov.pc = "zones" /\ prov'.pc = "result") => prov'.cause # ""
        /\ (prov.pc = "result" /\ prov'.pc = "result")
             => prov'.cause = prov.cause]_vars
  /\ (prov.pc \in {"zones", "zip", "result"}) ~> (prov.pc = "done" \/ ~running)

\* the zipcode phase has failed after a progress message: the error has been
\* delivered to the result waiter and the progress channel is closed
C15_FailureDelivered ==
  /\ prov.pc = "done"
  /\ running
  /\ provisionResultMsg("timeout") \in BagToSet(tasks)
  /\ ResultWaiters = 0
  /\ m.provisionStatus = "Building zipcode database..."

\* the message a command returns
MsgOf(kind) ==
  CASE kind = "geocodeLocation" -> "geocodeMsg"
    [] kind = "findNearbyZones" -> "zonesFoundMsg"
    [] kind = "findNearestTideStation" -> "tideStationFoundMsg"
    [] kind = "fetchZoneWeather" -> "zoneWeatherFetchedMsg"
    [] kind = "fetchZoneAlerts" -> "zoneAlertsFetchedMsg"
    [] kind = "fetchTideData" -> "tideDataFetchedMsg"
    [] kind = "directLoadStation" -> "directLoadStationMsg"
    [] kind = "fetchSavedPorts" -> "portsFetchedMsg"
    [] kind = "fetchPortByName" -> "portFetchedMsg"
    [] kind = "savePort" -> "portSavedMsg"
    [] kind = "deletePort" -> "portDeletedMsg"
    [] kind = "initiateProvisioning" -> "provisioningStartedMsg"
    [] OTHER -> kind

\* a copy of t has left the commands in flight in this step
Left(t) == CopiesIn(t, tasks') < CopiesIn(t, tasks)

\* the command that has left is the only one, it has left once, and its
\* message has been handed to Update (for a provisioning waiter: has been
\* returned to the runtime)
OneMessageOf(t) ==
  /\ CopiesIn(t, tasks') >= CopiesIn(t, tasks) - 1
  /\ \A u \in BagToSet(tasks) \ {t} : ~Left(u)
  /\ IF t = waitForProvisionStatus THEN StatusPending' = StatusPending + 1
     ELSE IF t = waitForProvisionResult THEN ResultsPending' = ResultsPending + 1
     ELSE last'.kind = MsgOf(t.kind)

\* the status waiter has found the progress channel closed and returned nil
ReturnedNil(t) ==
  /\ t = waitForProvisionStatus
  /\ prov.pc = "done"
  /\ tasks' = tasks (-) One(t)
  /\ StatusPending' = StatusPending
  /\ m' = m /\ last' = last

\* every command in flight ends: once the keys of the run have been pressed
\* the commands in flight run out, and none is left for ever
EveryCommandEnds == <>[](tasks = EmptyBag)

Builders(ph) == {p \in Procs : procs[p].phase = ph /\ procs[p].built}

\* C17: when the provisioning of a phase is triggered concurrently or
\* repeatedly on the same store, the probe inside the pipeline lets at most
\* one call build the table, and every call whose source data arrived
\* returns without an error.
C17_BuildOnceNoError ==
  /\ \A ph \in Phases : Cardinality(Builders(ph)) <= 1
  /\ \A p \in Procs :
       procs[p].pc = "returned" => procs[p].err \in {"", "fetch"}

\* the call p finds the table of its phase in the store
ProbeFinds(p) ==
  /\ procs[p].pc = "probe"
  /\ procs'[p].pc \notin {"probe", "crashed"}
  /\ db.tables[procs[p].phase].exists

\* C18: provisioning a store that is already provisioned is a no-op: a call
\* whose probe finds the table returns nil and leaves every table as it was,
\* and no step of any call changes the rows of a completely built table.
C18_ProvisionedIsNoOp ==
  /\ [][\A p \in Procs :
          ProbeFinds(p) => /\ procs'[p].pc = "returned"
                           /\ procs'[p].err = ""
                           /\ ~procs'[p].built
                           /\ db'.tables = db.tables]_vars
  /\ [][\A ph \in Phases :
          db.tables[ph] = Table(AllRows) => db'.tables[ph] = db.tables[ph]]_vars

\* a call on a provisioned store has returned nil without building
C18_RerunReturnedNil ==
  \E p \in Procs :
    /\ procs[p].pc = "returned"
    /\ procs[p].err = ""
    /\ ~procs[p].built
    /\ db.tables[procs[p].phase] = Table(AllRows)

\* the process has died during provisioning and no call is running
AfterCrash ==
  /\ \E p \in Procs : procs[p].pc = "crashed"
  /\ \A p \in Procs : ~Active(p)

\* C19: the writes of a provisioning phase are one transaction, so after a
\* crash at any point of provisioning a query finds each index table either
\* missing or completely populated, never partially populated.
C19_CrashLeavesNoPartialTable ==
  AfterCrash => \A ph \in Phases : db.tables[ph] \in {Absent, Table(AllRows)}

(***************************************************************************)
(* The database connections.                                                *)
(***************************************************************************)
\* the calls that have got a handle back
Served == {c \in Callers : conn.callers[c].pc = "done" /\ conn.callers[c].used # 0}

\* C20: the database connection is opened exactly once per process even
\* when first accesses race, and that one handle serves both the index
\* lookups and the saved-port operations.
C20_OneHandleForAll ==
  /\ conn.opens <= 1
  /\ \A c, d \in Served : conn.callers[c].used = conn.callers[d].used

\* C20, as the code has it: each index package opens its handle at most
\* once, a caller of GetDB returns only after the package's once has
\* finished and with that package's handle and error, and every saved-port
\* operation works on a connection of its own that no other call uses.
C20_OneHandlePerIndex ==
  /\ [][\A pkg \in Packages :
          conn.handle[pkg] # 0 => conn'.handle[pkg] = conn.handle[pkg]]_vars
  /\ [](\A c \in Callers :
          (conn.callers[c].pc = "done" /\ conn.callers[c].op \in Packages)
            => /\ conn.once[conn.callers[c].op] = "done"
               /\ conn.callers[c].used = conn.handle[conn.callers[c].op]
               /\ conn.callers[c].err = conn.initErr[conn.callers[c].op])
  /\ [](\A c \in Served :
          conn.callers[c].op = "ports"
            => \A d \in Served \ {c} :
                 conn.callers[d].used # conn.callers[c].used)

\* two lookups of one package share its handle while a saved-port operation
\* has a connection of its own
C20_SharedAndOwnHandles ==
  \E c, d, e \in Served :
    /\ c # d
    /\ conn.callers[c].op = "zonelookup"
    /\ conn.callers[d].op = "zonelookup"
    /\ conn.callers[c].used = conn.callers[d].used
    /\ conn.callers[e].op = "ports"
    /\ conn.callers[e].used # conn.callers[c].used

(***************************************************************************)
(* The lookups in the index tables.                                         *)
(***************************************************************************)
\* the nearby lookup has returned
NearbyDone == geo.pc = "done" /\ geo.op = "nearby"

\* the distance of row j of the table from the point of the lookup
TrueDistance(j) ==
  HaversineDistance(geo.lat, geo.lon, geo.table[j].lat, geo.table[j].lon)

\* the rows of the table within the radius
WithinRadius == {j \in 1..Len(geo.table) : TrueDistance(j) <= geo.radius * 1000}

\* the rows the lookup returned
Returned == {geo.list[i].row : i \in 1..Len(geo.list)}

\* C21: the nearby lookup returns no entity whose distance from the point is
\* greater than the radius.
C21_NoFalsePositive ==
  NearbyDone => \A i \in 1..Len(geo.list) :
                  /\ TrueDistance(geo.list[i].row) <= geo.radius * 1000
                  /\ geo.list[i].Distance = TrueDistance(geo.list[i].row)

\* the lookup returned an entity and left out one that the box query found
\* but that is farther away than the radius
C21_FartherRowLeftOut ==
  /\ NearbyDone
  /\ geo.list # <<>>
  /\ \E j \in 1..Len(geo.table) :
       /\ InBox(geo.kind, geo.lat, geo.lon, geo.radius, geo.table[j])
       /\ j \notin WithinRadius
       /\ j \notin Returned

\* C22: the box of the prefilter, with its 1.5x margin, contains every entity
\* within the radius, so the nearby lookup returns every entity that lies
\* within the radius.
C22_NoFalseNegative ==
  NearbyDone =>
    \A j \in WithinRadius :
      /\ InBox(geo.kind, geo.lat, geo.lon, geo.radius, geo.table[j])
      /\ j \in Returned

\* C23: the list the nearby lookup returns is sorted by non-decreasing
\* distance.
C23_SortedByDistance ==
  NearbyDone => \A i, j \in 1..Len(geo.list) :
                  i < j => geo.list[i].Distance <= geo.list[j].Distance

\* the lookup returned two entities, the nearer one inserted and scanned
\* after the farther one
C23_NearerScannedLater ==
  /\ NearbyDone
  /\ geo.order = "rowid"
  /\ \E i, j \in 1..Len(geo.list) :
       /\ i < j
       /\ geo.list[i].Distance < geo.list[j].Distance
       /\ geo.list[i].row > geo.list[j].row

\* C24: entities at exactly the same distance are returned in the order they
\* were inserted.
C24_TiesInInsertionOrder ==
  NearbyDone => \A i, j \in 1..Len(geo.list) :
                  (i < j /\ geo.list[i].Distance = geo.list[j].Distance)
                    => geo.list[i].row < geo.list[j].row

\* C25: when no entity lies within the radius the nearby lookup returns an
\* empty list and no error, for the zones and for the stations.
C25_EmptyIsNoError ==
  (NearbyDone /\ WithinRadius = {}) => (geo.list = <<>> /\ geo.err = "")

\* the rows of the table stored under the code of the lookup
Coded(code) == {j \in 1..Len(geo.table) : geo.table[j].code = code}

\* C26: the lookup by code returns one candidate stored under the code, with
\* distance 0, or the not-found error when no entity has the code; only the
\* nearby lookup returns a distance that is not 0.
C26_ByCodeOneOrNotFound ==
  /\ (geo.pc = "done" /\ geo.op = "code") =>
       IF Coded(geo.code) = {}
         THEN geo.list = <<>> /\ geo.err = "not found"
         ELSE /\ geo.err = ""
              /\ Len(geo.list) = 1
              /\ geo.list[1].code = geo.code
              /\ geo.list[1].row \in Coded(geo.code)
              /\ geo.list[1].Distance = 0
  /\ geo.pc = "done" =>
       \A i \in 1..Len(geo.list) :
         geo.list[i].Distance # 0 => geo.op = "nearby"

\* the lookup by code returned an entity that is not at the point given
C26_FoundAwayFromPoint ==
  /\ geo.pc = "done"
  /\ geo.op = "code"
  /\ Len(geo.list) = 1
  /\ TrueDistance(geo.list[1].row) # 0

(***************************************************************************)
(* The saved-port table.                                                    *)
(***************************************************************************)
\* the rows stored under a name
Named(rows, name) == {r \in rows : r.Name = name}

\* C27: saving a port under a name that is already stored, with other field
\* values, leaves exactly one row for the name, holding the values of the
\* later save; the rows of the other names stay as they were.
C27_UpsertOverwrites ==
  /\ [](\A r \in store : Named(store, r.Name) = {r})
  /\ [][\A t \in InFlight("savePort") :
          (PortSaved /\ last'.kind = "portSavedMsg" /\ last'.arg = "ok"
             /\ CopiesIn(t, tasks') < CopiesIn(t, tasks))
            => /\ \E r \in store' : Named(store', t.a) = {r}
               /\ \A r \in Named(store', t.a) :
                    \E station \in StationIDs :
                      r = CreatePort(t.a, t.b, t.c, station)
               /\ \A r \in store : r.Name # t.a => r \in store'
               /\ \A r \in store' : r.Name # t.a => r \in store]_vars

\* the port saved as Dock has replaced the row the table held under that name
C27_DockOverwritten ==
  /\ last.kind = "portSavedMsg"
  /\ last.arg = "ok"
  /\ WharfPort \in store
  /\ \E r \in store : r.Name = "Dock" /\ r # DockPort

(***************************************************************************)
(* Completion messages that arrive late.                                    *)
(***************************************************************************)
\* the step hands Update the message of a command of this kind that was
\* dispatched for a zone other than the one selected now
StaleDone(kind) ==
  /\ m.selectedZone # NilZone
  /\ \E t \in InFlight(kind) :
       /\ t.a # m.selectedZone.Code
       /\ CopiesIn(t, tasks') < CopiesIn(t, tasks)

\* C29: the weather, forecast and alerts held while a zone is selected were
\* fetched for it: the message of a fetch dispatched for an earlier selection
\* fills no data field and clears no loading flag of the later selection.
C29_StaleMessageIgnored ==
  [][/\ (ZoneWeatherFetched /\ StaleDone("fetchZoneWeather"))
          => /\ m'.weather = m.weather
             /\ m'.forecast = m.forecast
             /\ m'.loadingWeather = m.loadingWeather
     /\ (ZoneAlertsFetched /\ StaleDone("fetchZoneAlerts"))
          => /\ m'.alerts = m.alerts
             /\ m'.loadingAlerts = m.loadingAlerts]_vars

\* C30: a weather or alert completion message changes the application state
\* only in Loading; in every other state it leaves the state as it is.
C30_CompletionOnlyInLoading ==
  [][((ZoneWeatherFetched \/ ZoneAlertsFetched) /\ m.state # "Loading")
       => m'.state = m.state]_vars

(***************************************************************************)
(* The selected zone in Display.                                            *)
(***************************************************************************)
\* C31: whenever the state is Display a selected zone is present, late
\* completion messages included.
C31_DisplayHasZone ==
  m.state = "Display" => m.selectedZone # NilZone

(***************************************************************************)
(* The provisioning goroutine and its waiters.                              *)
(***************************************************************************)
\* the goroutine is in a phase, where it sends on progressChan
InPhase == running /\ prov.pc \in {"zones", "zip"}

\* C32: the provisioning goroutine never blocks forever.  While it is in a
\* phase a status waiter is receiving, or a status message is on its way to
\* an Update that still holds the channels and will issue the next waiter;
\* until the result is sent the one result waiter is receiving; and in the
\* end the goroutine has finished and every waiter has returned.
C32_GoroutineNeverStuck ==
  /\ [](InPhase => \/ StatusWaiters >= 1
                   \/ StatusPending >= 1 /\ m.provisionChannels)
  /\ []((running /\ prov.pc \in {"zones", "zip", "result"})
          => ResultWaiters = 1)
  /\ <>[](/\ prov.pc \in {"idle", "done"}
          /\ StatusWaiters = 0
          /\ ResultWaiters = 0)

\* a progress message was received and handled, the goroutine has finished
\* and no waiter is left
C32_FinishedAfterProgress ==
  /\ running
  /\ prov.pc = "done"
  /\ m.provisionStatus = "Building zipcode database..."
  /\ StatusWaiters = 0
  /\ ResultWaiters = 0

(***************************************************************************)
(* What the existence probe tells.                                          *)
(***************************************************************************)
\* no call is building the table of the phase
NoBuildRunning(ph) == \A p \in Procs : ~(Active(p) /\ procs[p].phase = ph)

\* C33: when the existence probe reports that a phase needs no provisioning
\* its table is completely populated: a build that was interrupted part-way
\* leaves a store the probe reports as needing provisioning.
C33_ProbeMeansComplete ==
  \A ph \in Phases :
    (NoBuildRunning(ph) /\ db.tables[ph].exists)
      => db.tables[ph].rows = AllRows

(***************************************************************************)
(* Leaving Loading and Provisioning.                                        *)
(***************************************************************************)
\* the reducer waits for a completion message
Waiting == running /\ m.state \in {"Loading", "Provisioning"}

\* the reducer is in a state the user can act in, or the program has quit
Settled ==
  \/ ~running
  \/ m.state \in {"Search", "ZoneList", "Display", "Error"}

\* C34: when every dispatched command delivers its message the reducer does
\* not stay in Loading or Provisioning forever: while it waits a command is
\* still in flight, and it reaches Search, ZoneList, Display or Error.
C34_WaitingEnds ==
  /\ [](Waiting => tasks # EmptyBag)
  /\ Waiting ~> Settled

C34_LoadingLeftForZoneList ==
  /\ running
  /\ m.state = "ZoneList"
  /\ last.kind = "zonesFoundMsg"
SavesInFlight ==
  BagCardinality([t \in InFlight("savePort") |-> CopiesIn(t, tasks)])

\* C35: at most one save command is in flight at a time: while the saving flag
\* is set, Enter in the save prompt dispatches no further save command.
C35_OneSaveInFlight ==
  /\ [](SavesInFlight =< 1)
  /\ [][(/\ m.saving
         /\ m.state = "SavePrompt"
         /\ last' = Msg("key", "enter")
         /\ pressed' # pressed)
          => SavesInFlight' =< SavesInFlight]_vars
NoStoreTask ==
  /\ InFlight("savePort") = {}
  /\ InFlight("deletePort") = {}
  /\ InFlight("fetchSavedPorts") = {}

\* C36: once no save or delete command is in flight, the savedPorts slice
\* equals what ListPorts returns: the same rows in the same by-name order.
\* Stated for the states that follow a successful save or delete.
C36_LocalListEqualsStore ==
  (/\ rev = "ports"
   /\ NoStoreTask
   /\ last \in {Msg("portSavedMsg", "ok"), Msg("portDeletedMsg", "ok")})
    => m.savedPorts = ListPorts(store)
\* C37: a station code given at startup that is not in the zone index ends in
\* Error: Display is never reached with a selected zone whose code is absent
\* from the index.
C37_UnknownStationNeverDisplayed ==
  (m.state = "Display" /\ m.selectedZone # NilZone)
    => m.selectedZone.Code \in ZoneCodes
(***************************************************************************)
(* The alert cache of NOAAAlertClient.  Time is counted in units of five    *)
(* minutes.                                                                 *)
(***************************************************************************)

\* what the network clients do not touch
appVars ==
  <<db, procs, conn, geo, rev, m, tasks, store, prov, running, last, pressed>>

\* the ways the fetch of GetActiveAlertsByZone fails
FetchFailures ==
  {"failed to create request", "failed to fetch alerts",
   "API returned status", "failed to decode response"}

\* time passes
CacheTick ==
  /\ cache.now < MaxNow
  /\ cache' = [cache EXCEPT !.now = @ + 1]
  /\ UNCHANGED <<coder, appVars>>

\* a goroutine calls GetActiveAlertsByZone(ctx, zone)
CacheCall(c) ==
  /\ cache.calls[c].pc \in {"idle", "done"}
  /\ \E zone \in ZoneCodes :
       cache' = [cache EXCEPT !.calls[c] =
                                [IdleClient EXCEPT !.pc = "lookup",
                                                   !.zone = zone]]
  /\ UNCHANGED <<coder, appVars>>

\* the check of the cache that serves whatever entry the zone has
ServesAnyAge(entry, now) == entry.ok

\* ok && time.Since(entry.fetchedAt) < cacheDuration
Fresh(entry, now) == entry.ok /\ now - entry.fetchedAt < cacheDuration

\* "Check cache first": the entry of the zone is read under RLock and served
\* if it is fresh
CacheLookup(c) ==
  /\ cache.calls[c].pc = "lookup"
  /\ LET call == cache.calls[c]
         entry == cache.entries[call.zone]
     IN  cache' =
           IF Fresh(entry, cache.now)
             THEN [cache EXCEPT !.calls[c] =
                                  [call EXCEPT !.pc = "done",
                                               !.data = entry.data,
                                               !.hit = TRUE,
                                               !.age = cache.now
                                                         - entry.fetchedAt]]
             ELSE [cache EXCEPT !.calls[c].pc = "fetch"]
  /\ UNCHANGED <<coder, appVars>>

\* the request, the status check and the decoding: an error returns at once,
\* a success builds the AlertData of the zone
CacheFetch(c) ==
  /\ cache.calls[c].pc = "fetch"
  /\ \E failure \in FetchFailures \cup {""} :
       cache' =
         IF failure # ""
           THEN [cache EXCEPT !.calls[c].pc = "done",
                              !.calls[c].err = failure]
           ELSE [cache EXCEPT !.calls[c].pc = "store",
                              !.calls[c].data =
                                 [kind |-> "alerts",
                                  of |-> cache.calls[c].zone,
                                  UpdatedAt |-> cache.now]]
  /\ UNCHANGED <<coder, appVars>>

\* "Store in cache": c.cache[marineZone] = cacheEntry{alertData, time.Now()}
CacheStore(c) ==
  /\ cache.calls[c].pc = "store"
  /\ cache' = [cache EXCEPT
                 !.entries[cache.calls[c].zone] =
                    cacheEntry(cache.calls[c].data, cache.now),
                 !.calls[c].pc = "done"]
  /\ UNCHANGED <<coder, appVars>>

InitClients ==
  /\ rev = "zones"
  /\ m = NewModel("zones", "", "", "")
  /\ tasks = EmptyBag
  /\ store = {}
  /\ prov = NoProv
  /\ running = TRUE
  /\ last = [kind |-> "init", arg |-> ""]
  /\ pressed = 0
  /\ db = NoDB
  /\ procs = NoProcs
  /\ conn = NoConn
  /\ geo = NoGeo
  /\ cache = NoCache
  /\ coder = NoCoder

NextCache ==
  \/ CacheTick
  \/ \E c \in Clients : CacheCall(c)
  \/ \E c \in Clients : CacheLookup(c)
  \/ \E c \in Clients : CacheFetch(c)
  \/ \E c \in Clients : CacheStore(c)

SpecCache == InitClients /\ [][NextCache]_vars

\* the call of c returned an entry of the cache
ServedFromCache(c) == cache.calls[c].pc = "done" /\ cache.calls[c].hit

\* C38: the alert cache never serves an entry older than 15 minutes, never
\* stores the outcome of a failed fetch, and serves an entry only for the zone
\* code under which it was stored.
C38_CacheFreshKeyedNoFailures ==
  /\ [](\A c \in Clients :
          ServedFromCache(c)
            => /\ cache.calls[c].age < cacheDuration
               /\ cache.calls[c].data.of = cache.calls[c].zone
               /\ cache.calls[c].err = "")
  /\ [](\A z \in ZoneCodes :
          cache.entries[z].ok
            => /\ cache.entries[z].data # NilData
               /\ cache.entries[z].data.of = z)
  /\ [][\A c \in Clients :
          (cache.calls[c].pc = "fetch" /\ cache'.calls[c].err # "")
            => cache'.entries = cache.entries]_vars

\* an entry stored ten minutes ago under ANZ254 is served for ANZ254 while
\* the other client's fetch has failed
C38_ServedAfterTenMinutes ==
  /\ ServedFromCache(1)
  /\ cache.calls[1].zone = "ANZ254"
  /\ cache.calls[1].age = 2
  /\ cache.calls[2].pc = "done"
  /\ cache.calls[2].err # ""
(***************************************************************************)
(* The rate limit of Geocoder.Geocode.  Time is counted in half seconds.    *)
(***************************************************************************)

\* time passes
CoderTick ==
  /\ coder.now < MaxTime
  /\ coder' = [coder EXCEPT !.now = @ + 1]
  /\ UNCHANGED <<cache, appVars>>

\* a goroutine calls Geocode with a city/state query and reaches g.mu.Lock()
GeocodeCall(c) ==
  /\ coder.calls[c].pc = "idle"
  /\ coder' = [coder EXCEPT !.calls[c].pc = "lock"]
  /\ UNCHANGED <<cache, appVars>>

\* g.mu.Lock()
CoderLock(c) ==
  /\ coder.calls[c].pc = "lock"
  /\ coder.mu = 0
  /\ coder' = [coder EXCEPT !.mu = c, !.calls[c].pc = "check"]
  /\ UNCHANGED <<cache, appVars>>

\* the rate limit that never waits
NeverWaits(lastCall, now) == FALSE

\* !g.lastCall.IsZero() and time.Since(g.lastCall) < time.Second
MustWait(lastCall, now) == lastCall # ZeroTime /\ now - lastCall < Second

\* the check of lastCall: time.Sleep(time.Second - elapsed) is entered or
\* skipped
CoderCheck(c) ==
  /\ coder.calls[c].pc = "check"
  /\ coder' =
       IF MustWait(coder.lastCall, coder.now)
         THEN [coder EXCEPT !.calls[c] =
                              [pc |-> "sleep",
                               wake |-> coder.now
                                          + (Second
                                               - (coder.now - coder.lastCall))]]
         ELSE [coder EXCEPT !.calls[c].pc = "stamp"]
  /\ UNCHANGED <<cache, appVars>>

\* time.Sleep returns, no earlier than the duration asked for
CoderWake(c) ==
  /\ coder.calls[c].pc = "sleep"
  /\ coder.now >= coder.calls[c].wake
  /\ coder' = [coder EXCEPT !.calls[c].pc = "stamp"]
  /\ UNCHANGED <<cache, appVars>>

\* g.lastCall = time.Now(); g.mu.Unlock(): the request is admitted
CoderAdmit(c) ==
  /\ coder.calls[c].pc = "stamp"
  /\ coder' = [coder EXCEPT !.lastCall = coder.now,
                            !.mu = 0,
                            !.admitted = Append(@, coder.now),
                            !.calls[c].pc = "request"]
  /\ UNCHANGED <<cache, appVars>>

\* the request to Nominatim and the return of Geocode
CoderReturn(c) ==
  /\ coder.calls[c].pc = "request"
  /\ coder' = [coder EXCEPT !.calls[c] = IdleGeocoder]
  /\ UNCHANGED <<cache, appVars>>

NextCoder ==
  \/ CoderTick
  \/ \E c \in Geocoders : GeocodeCall(c)
  \/ \E c \in Geocoders : CoderLock(c)
  \/ \E c \in Geocoders : CoderCheck(c)
  \/ \E c \in Geocoders : CoderWake(c)
  \/ \E c \in Geocoders : CoderAdmit(c)
  \/ \E c \in Geocoders : CoderReturn(c)

SpecCoder == InitClients /\ [][NextCoder]_vars

\* C39: across the concurrent callers of one Geocoder no two requests are
\* admitted less than one second apart.
C39_AdmissionsOneSecondApart ==
  \A i, j \in 1..Len(coder.admitted) :
    i < j => coder.admitted[j] - coder.admitted[i] >= Second

\* three requests have been admitted, the second and third after a sleep,
\* while the other caller waits for the lock
C39_ThreeAdmitted ==
  /\ coder.admitted = <<0, 2, 4>>
  /\ \E c \in Geocoders : coder.calls[c].pc = "lock"

====
